---- MODULE Spec2Model ----
(***************************************************************************)
(* A model of the ProTune pitch-correction pipeline: the scale-type-to-mask *)
(* helpers, ScaleMapper, RetuneEngine and PsolaShifter.                     *)
(*                                                                          *)
(* Number representation.  Pitches are fixed point, Semi units to the       *)
(* semitone (one unit = 0.1 cent).  A frequency is a record [sgn, lg]: sgn  *)
(* is the sign of the value in Hz (1, 0, -1) and, for a positive frequency, *)
(* lg = 12 * Semi * log2 (f / 440), its distance from A4 in units, so that  *)
(* the code's log2 / pow conversions are exact affine maps.                 *)
(***************************************************************************)
EXTENDS Integers, Sequences, FiniteSets, TLC

\* one semitone in fixed-point units
Semi == 10 * 100

Abs(x) == IF x < 0 THEN -x ELSE x

jmax(a, b) == IF a > b THEN a ELSE b

jmin(a, b) == IF a < b THEN a ELSE b

jlimit(lo, hi, x) == IF x < lo THEN lo ELSE IF x > hi THEN hi ELSE x

\* F applied to the value v: a local value computed once and used many times
With(v, F(_)) == F(v)

\* a positive frequency lg units above A4 (440 Hz)
Hz(lg) == [sgn |-> 1, lg |-> lg]

\* the frequency 0.0f
ZeroHz == [sgn |-> 0, lg |-> 0]

\* some negative frequency
NegHz == [sgn |-> -1, lg |-> 0]

\* std::round on a fixed-point value: nearest integer, halves away from zero
Round(x) == IF x >= 0 THEN (x + Semi \div 2) \div Semi ELSE -((-x + Semi \div 2) \div Semi)

\* ((value % 12) + 12) % 12 with C++'s truncating remainder
positiveModulo(value, modulo) == value % modulo

(***************************************************************************)
(* Bit masks (uint16_t)                                                     *)
(***************************************************************************)
BitSet(m, i) == (m \div (2 ^ i)) % 2 = 1

\* m | (1u << i), kept to 16 bits
OrBit(m, i) == IF i >= 16 \/ BitSet(m, i) THEN m ELSE m + 2 ^ i

\* m & 0x0FFF
And0FFF(m) == m % 4096

\* 0x0FFF
FullMask == 4095

ScaleTypes ==
    << "Chromatic", "Major", "NaturalMinor", "HarmonicMinor", "MelodicMinor",
       "Dorian", "Phrygian", "Lydian", "Mixolydian", "Locrian", "WholeTone",
       "Blues", "MajorPentatonic", "MinorPentatonic", "Diminished", "Custom" >>

ScaleTypeSet == { ScaleTypes[i] : i \in 1..Len(ScaleTypes) }

NamedScaleTypes == ScaleTypeSet \ { "Chromatic", "Custom" }

\* the interval lists written out in ScaleSettings::maskForType
EnginePattern(type) ==
    CASE type = "Major"           -> << 0, 2, 4, 5, 7, 9, 11 >>
      [] type = "NaturalMinor"    -> << 0, 2, 3, 5, 7, 8, 10 >>
      [] type = "HarmonicMinor"   -> << 0, 2, 3, 5, 7, 8, 11 >>
      [] type = "MelodicMinor"    -> << 0, 2, 3, 5, 7, 9, 11 >>
      [] type = "Dorian"          -> << 0, 2, 3, 5, 7, 9, 10 >>
      [] type = "Phrygian"        -> << 0, 1, 3, 5, 7, 8, 10 >>
      [] type = "Lydian"          -> << 0, 2, 4, 6, 7, 9, 11 >>
      [] type = "Mixolydian"      -> << 0, 2, 4, 5, 7, 9, 10 >>
      [] type = "Locrian"         -> << 0, 1, 3, 5, 6, 8, 10 >>
      [] type = "WholeTone"       -> << 0, 2, 4, 6, 8, 10 >>
      [] type = "Blues"           -> << 0, 3, 5, 6, 7, 10 >>
      [] type = "MajorPentatonic" -> << 0, 2, 4, 7, 9 >>
      [] type = "MinorPentatonic" -> << 0, 3, 5, 7, 10 >>
      [] type = "Diminished"      -> << 0, 2, 3, 5, 6, 8, 9, 11 >>

\* the static pattern arrays of ScaleMapper
MapperPattern(type) ==
    CASE type = "Major"           -> << 0, 2, 4, 5, 7, 9, 11 >>
      [] type = "NaturalMinor"    -> << 0, 2, 3, 5, 7, 8, 10 >>
      [] type = "HarmonicMinor"   -> << 0, 2, 3, 5, 7, 8, 11 >>
      [] type = "MelodicMinor"    -> << 0, 2, 3, 5, 7, 9, 11 >>
      [] type = "Dorian"          -> << 0, 2, 3, 5, 7, 9, 10 >>
      [] type = "Phrygian"        -> << 0, 1, 3, 5, 7, 8, 10 >>
      [] type = "Lydian"          -> << 0, 2, 4, 6, 7, 9, 11 >>
      [] type = "Mixolydian"      -> << 0, 2, 4, 5, 7, 9, 10 >>
      [] type = "Locrian"         -> << 0, 1, 3, 5, 6, 8, 10 >>
      [] type = "WholeTone"       -> << 0, 2, 4, 6, 8, 10 >>
      [] type = "Blues"           -> << 0, 3, 5, 6, 7, 10 >>
      [] type = "MajorPentatonic" -> << 0, 2, 4, 7, 9 >>
      [] type = "MinorPentatonic" -> << 0, 3, 5, 7, 10 >>
      [] type = "Diminished"      -> << 0, 2, 3, 5, 6, 8, 9, 11 >>

RECURSIVE PatternFold(_, _, _, _)
\* for (interval : pattern) mask |= 1u << positiveModulo (root + interval, 12)
PatternFold(root, pattern, k, mask) ==
    IF k > Len(pattern) THEN mask
    ELSE PatternFold(root, pattern, k + 1,
                     OrBit(mask, positiveModulo(root + pattern[k], 12)))

RECURSIVE PatternFoldAnd(_, _, _, _)
\* the loop with "mask &= bit" written for "mask |= bit"
PatternFoldAnd(root, pattern, k, mask) ==
    IF k > Len(pattern) THEN mask
    ELSE PatternFoldAnd(root, pattern, k + 1,
                        IF BitSet(mask, positiveModulo(root + pattern[k], 12))
                        THEN 2 ^ positiveModulo(root + pattern[k], 12) ELSE 0)

RECURSIVE PatternFoldNoMod(_, _, _, _)
\* the loop with the "mod 12" left out of the pitch class
PatternFoldNoMod(root, pattern, k, mask) ==
    IF k > Len(pattern) THEN mask
    ELSE PatternFoldNoMod(root, pattern, k + 1, OrBit(mask, root + pattern[k]))

patternToMask_and(root, pattern) == PatternFoldAnd(root, pattern, 1, 0)

patternToMask_nomod(root, pattern) == PatternFoldNoMod(root, pattern, 1, 0)

patternToMask(root, pattern) == PatternFold(root, pattern, 1, 0)

maskForType(type, root, customMask) ==
    CASE type = "Chromatic" -> FullMask
      [] type \in NamedScaleTypes -> patternToMask(root, EnginePattern(type))
      [] OTHER -> And0FFF(customMask)

\* the addPattern lambda of getMaskForScale: (root + interval) % 12
addPattern(root, pattern) == PatternFold(root, pattern, 1, 0)

getMaskForScale(type, root) ==
    CASE type = "Chromatic" -> FullMask
      [] type \in NamedScaleTypes -> addPattern(root, MapperPattern(type))
      [] OTHER -> FullMask

(***************************************************************************)
(* ScaleMapper                                                              *)
(***************************************************************************)
\* ScaleMapper::referenceNote (A4 = MIDI 69)
referenceNote == 69

\* std::numeric_limits<float>::max(), in units
FloatMax == 2 ^ 30

\* referenceNote + 12 * log2 (frequency / referenceA4); 0 for frequency <= 0
frequencyToMidi(frequency) ==
    IF frequency.sgn <= 0 THEN 0 ELSE referenceNote * Semi + frequency.lg

\* the conversion back written against middle C (60) instead of A4 (69)
midiToFrequency_c4(midiNote) == Hz(midiNote - 60 * Semi)

\* referenceA4 * 2 ^ ((midiNote - referenceNote) / 12)
midiToFrequency(midiNote) == Hz(midiNote - referenceNote * Semi)

RECURSIVE SnapScan(_, _, _, _, _, _)
\* the candidate loop of snapToScale, from delta on
SnapScan(rounded, midiNote, mask, delta, bestNote, bestDistance) ==
    IF delta > 12 THEN bestNote
    ELSE LET candidate == rounded + delta
             pitchClass == positiveModulo(candidate, 12)
             distance == Abs(candidate * Semi - midiNote)
         IN  IF BitSet(mask, pitchClass) /\ distance < bestDistance
             THEN SnapScan(rounded, midiNote, mask, delta + 1, candidate, distance)
             ELSE SnapScan(rounded, midiNote, mask, delta + 1, bestNote, bestDistance)

RECURSIVE SnapScanLast(_, _, _, _, _, _)
\* the candidate loop comparing with "<=" for "<"
SnapScanLast(rounded, midiNote, mask, delta, bestNote, bestDistance) ==
    IF delta > 12 THEN bestNote
    ELSE LET candidate == rounded + delta
             pitchClass == positiveModulo(candidate, 12)
             distance == Abs(candidate * Semi - midiNote)
         IN  IF BitSet(mask, pitchClass) /\ distance <= bestDistance
             THEN SnapScanLast(rounded, midiNote, mask, delta + 1, candidate, distance)
             ELSE SnapScanLast(rounded, midiNote, mask, delta + 1, bestNote, bestDistance)

\* snapToScale keeping the last of several equally near candidates
snapToScale_last(midiNote, mask) ==
    SnapScanLast(Round(midiNote), midiNote, mask, -12, Round(midiNote), FloatMax)

\* snapToScale measuring the distance from the rounded note
snapToScale_rounded(midiNote, mask) ==
    SnapScan(Round(midiNote), Round(midiNote) * Semi, mask, -12, Round(midiNote), FloatMax)

snapToScale(midiNote, mask) ==
    SnapScan(Round(midiNote), midiNote, mask, -12, Round(midiNote), FloatMax)

\* a default-constructed MapResult
EmptyMapResult ==
    [targetMidi |-> 0, targetFrequency |-> ZeroHz, targetNoteNumber |-> 0,
     deviationCents |-> 0]

\* inputMidi of ScaleMapper::map after the transpose: the override note when
\* there is one, the detected frequency's note otherwise
TransposedInput(st, detectedFrequency, midiOverride) ==
    (IF midiOverride >= 0 THEN midiOverride * Semi
                          ELSE frequencyToMidi(detectedFrequency))
    + st.transpose * Semi

\* map returning early on a missing frequency even when a note is held
\* ("||" for "&&")
map_or(st, mask, detectedFrequency, midiOverride) ==
    IF detectedFrequency.sgn <= 0 \/ midiOverride < 0 THEN EmptyMapResult
    ELSE LET inputMidi == TransposedInput(st, detectedFrequency, midiOverride)
             snappedNote == snapToScale(inputMidi, mask)
             targetMidi == snappedNote * Semi + (st.detune * Semi) \div 100
         IN  [targetMidi |-> targetMidi,
              targetFrequency |-> midiToFrequency(targetMidi),
              targetNoteNumber |-> snappedNote,
              deviationCents |-> inputMidi - snappedNote * Semi]

\* ScaleMapper::map; st are the settings, mask the active mask.
\* deviationCents is kept in units (0.1 cent), detune is in cents.
map(st, mask, detectedFrequency, midiOverride) ==
    IF detectedFrequency.sgn <= 0 /\ midiOverride < 0 THEN EmptyMapResult
    ELSE LET inputMidi == TransposedInput(st, detectedFrequency, midiOverride)
             snappedNote == snapToScale(inputMidi, mask)
             targetMidi == snappedNote * Semi + (st.detune * Semi) \div 100
         IN  [targetMidi |-> targetMidi,
              targetFrequency |-> midiToFrequency(targetMidi),
              targetNoteNumber |-> snappedNote,
              deviationCents |-> inputMidi - snappedNote * Semi]

\* setSettings without the fall-back to the chromatic mask
ActiveMask_nofallback(newSettings) ==
    IF newSettings.type = "Custom" THEN And0FFF(newSettings.customMask)
    ELSE getMaskForScale(newSettings.type, newSettings.root)

\* the value ScaleMapper::setSettings leaves in currentMask
ActiveMask(newSettings) ==
    LET m == IF newSettings.type = "Custom" THEN And0FFF(newSettings.customMask)
             ELSE getMaskForScale(newSettings.type, newSettings.root)
    IN  IF m = 0 THEN FullMask ELSE m

\* ScaleMapper::Settings as default-initialised
DefaultScaleSettings ==
    [type |-> "Chromatic", root |-> 0, customMask |-> FullMask, transpose |-> 0,
     detune |-> 0]

(***************************************************************************)
(* juce::SmoothedValue<float> (linear), as RetuneEngine uses it.  A         *)
(* smoother is [currentValue, target, countdown, stepsToTarget, step].      *)
(* Ratios are kept as 12 * Semi * log2 (ratio): 0 is unity, 12 * Semi is    *)
(* 2.0, -12 * Semi is 0.5, and a product of ratios is a sum.                *)
(***************************************************************************)
\* a / b rounded towards zero
TruncDiv(a, b) == IF a >= 0 THEN a \div b ELSE -((-a) \div b)

\* the ratio 1.0f
Unity == 0

\* the ratio 2.0f; 0.5f is -MaxRatio
MaxRatio == 12 * Semi

setCurrentAndTargetValue(sm, newValue) ==
    [sm EXCEPT !.currentValue = newValue, !.target = newValue, !.countdown = 0]

\* reset (sampleRate, rampLengthInSeconds), the ramp given in microseconds
smootherReset(sm, sampleRate, rampMicros) ==
    setCurrentAndTargetValue([sm EXCEPT !.stepsToTarget = (rampMicros * sampleRate) \div 1000000],
                             sm.target)

setTargetValue(sm, newValue) ==
    IF newValue = sm.target THEN sm
    ELSE IF sm.stepsToTarget <= 0 THEN setCurrentAndTargetValue(sm, newValue)
    ELSE [sm EXCEPT !.target = newValue, !.countdown = sm.stepsToTarget,
                    !.step = TruncDiv(newValue - sm.currentValue, sm.stepsToTarget)]

skip(sm, numSamples) ==
    IF numSamples >= sm.countdown THEN setCurrentAndTargetValue(sm, sm.target)
    ELSE [sm EXCEPT !.currentValue = sm.currentValue + sm.step * numSamples,
                    !.countdown = sm.countdown - numSamples]

(***************************************************************************)
(* RetuneEngine.  Its settings are [retuneSpeedMs, vibratoTracking,         *)
(* humanize, noteTransition], the last three in thousandths.                *)
(***************************************************************************)
\* juce::MathConstants<float>::twoPi, in milliradians
TwoPi == 6283

\* std::sin of an angle in 0 .. TwoPi milliradians, in thousandths
\* (Bhaskara's rational approximation)
Sin(x) ==
    LET h == TwoPi \div 2
        y == IF x <= h THEN x ELSE x - h
        q == y * (h - y)
        v == (16 * q) \div ((5 * h * h - 4 * q) \div 1000)
    IN  IF x <= h THEN v ELSE -v

\* RetuneEngine::Settings as default-initialised
DefaultRetuneSettings ==
    [retuneSpeedMs |-> 20, vibratoTracking |-> 500, humanize |-> 0,
     noteTransition |-> 200]

\* RetuneEngine::frequencyToMidi: 69 + 12 * log2 (freq / 440); 0 for freq <= 0
retuneFrequencyToMidi(freq) == IF freq.sgn <= 0 THEN 0 ELSE 69 * Semi + freq.lg

\* jmax (0.001f, settings.retuneSpeedMs / 1000.0f), in microseconds
retuneTimeMicros(st) == jmax(1000, st.retuneSpeedMs * 1000)

\* jmap (settings.noteTransition, 0, 1, 0.005f, 0.15f), in microseconds
transitionTimeMicros(st) == 5000 + st.noteTransition * 145

\* RetuneEngine::detectNoteTransition: [factor, lastTargetNote]
detectNoteTransition(lastNote, targetFreq) ==
    IF targetFreq.sgn <= 0 THEN [factor |-> 0, lastTargetNote |-> lastNote]
    ELSE LET targetNote == Round(retuneFrequencyToMidi(targetFreq))
         IN  IF lastNote < 0 THEN [factor |-> 0, lastTargetNote |-> targetNote]
             ELSE [factor |-> IF Abs(targetNote - lastNote) >= 1 THEN 1 ELSE 0,
                   lastTargetNote |-> targetNote]

\* the blend without the two thresholds: the deviation scaled by the tracking
\* amount for every amount
applyVibratoTracking_linear(st, detectedFreq, targetFreq) ==
    LET detectedMidi == retuneFrequencyToMidi(detectedFreq)
        deviation == detectedMidi - Round(detectedMidi) * Semi
    IN  Hz(targetFreq.lg + TruncDiv(deviation * st.vibratoTracking, 1000))

\* RetuneEngine::applyVibratoTracking: the adjusted target frequency
applyVibratoTracking(st, detectedFreq, targetFreq) ==
    LET detectedMidi == retuneFrequencyToMidi(detectedFreq)
        deviation == detectedMidi - Round(detectedMidi) * Semi
    IN  IF st.vibratoTracking <= 10 THEN targetFreq
        ELSE IF st.vibratoTracking >= 990 THEN Hz(targetFreq.lg + deviation)
        ELSE Hz(targetFreq.lg + TruncDiv(deviation * st.vibratoTracking, 1000))

\* RetuneEngine::applyHumanize with noise = (random.nextFloat() - 0.5f) * 0.002f
\* in units: [ratio, humanizePhase]
applyHumanize(st, sampleRate, phase, ratio, noise) ==
    IF st.humanize <= 10 THEN [ratio |-> ratio, humanizePhase |-> phase]
    ELSE LET advanced == phase + 384000 \div sampleRate
             wrapped == IF advanced > TwoPi THEN advanced - TwoPi ELSE advanced
             lfo == Sin(wrapped)
             modulation == TruncDiv((TruncDiv(lfo * 5, 1000) + noise) * st.humanize, 1000)
         IN  [ratio |-> ratio + modulation, humanizePhase |-> wrapped]

\* the engine's members
RetuneState(st, sampleRate, sm, lastDetected, lastTarget, ratio, note, phase) ==
    [settings |-> st, currentSampleRate |-> sampleRate, ratioSmoother |-> sm,
     lastDetectedFrequency |-> lastDetected, lastTargetFrequency |-> lastTarget,
     lastRatio |-> ratio, lastTargetNote |-> note, humanizePhase |-> phase]

\* RetuneEngine::reset
retuneReset(e) ==
    [e EXCEPT !.ratioSmoother = setCurrentAndTargetValue(e.ratioSmoother, Unity),
              !.lastDetectedFrequency = ZeroHz, !.lastTargetFrequency = ZeroHz,
              !.lastRatio = Unity, !.lastTargetNote = -1, !.humanizePhase = 0]

\* RetuneEngine::prepare on a newly constructed engine
retunePrepare(sampleRate) ==
    LET sm0 == [currentValue |-> 0, target |-> 0, countdown |-> 0,
                stepsToTarget |-> 0, step |-> 0]
        sm1 == setCurrentAndTargetValue(
                   smootherReset(sm0, sampleRate, retuneTimeMicros(DefaultRetuneSettings)),
                   Unity)
    IN  retuneReset(RetuneState(DefaultRetuneSettings, sampleRate, sm1, ZeroHz, ZeroHz,
                                Unity, -1, 0))

\* RetuneEngine::setSettings
retuneSetSettings(e, newSettings) ==
    [e EXCEPT !.settings = newSettings,
              !.ratioSmoother = smootherReset(e.ratioSmoother, e.currentSampleRate,
                                              retuneTimeMicros(newSettings))]

\* the invalid-frequency branch snapping back to unity instead of holding
processInvalid_unity(e, numSamples) ==
    [e EXCEPT !.ratioSmoother = setCurrentAndTargetValue(e.ratioSmoother, Unity),
              !.lastRatio = Unity]

\* the invalid-frequency branch of process: the engine after the call
processInvalid(e, numSamples) ==
    IF numSamples > 0 THEN [e EXCEPT !.ratioSmoother = skip(e.ratioSmoother, numSamples)]
    ELSE e

\* the valid-frequency branch of process: the engine after the call
processValid(e, detectedFrequency, targetFrequency, numSamples, noise) ==
    LET st == e.settings
        tr == detectNoteTransition(e.lastTargetNote, targetFrequency)
        adjustedTarget == applyVibratoTracking(st, detectedFrequency, targetFrequency)
        clamped == jlimit(-MaxRatio, MaxRatio, adjustedTarget.lg - detectedFrequency.lg)
        hum == IF st.humanize > 0
               THEN applyHumanize(st, e.currentSampleRate, e.humanizePhase, clamped, noise)
               ELSE [ratio |-> clamped, humanizePhase |-> e.humanizePhase]
        sm1 == smootherReset(e.ratioSmoother, e.currentSampleRate,
                             IF tr.factor = 1 THEN transitionTimeMicros(st)
                                              ELSE retuneTimeMicros(st))
        sm2 == skip(setTargetValue(sm1, hum.ratio), numSamples)
    IN  [e EXCEPT !.ratioSmoother = sm2, !.lastRatio = sm2.currentValue,
                  !.lastTargetNote = tr.lastTargetNote,
                  !.humanizePhase = hum.humanizePhase,
                  !.lastDetectedFrequency = detectedFrequency,
                  !.lastTargetFrequency = targetFrequency]

\* RetuneEngine::process: the engine after the call; it returns lastRatio
process(e, detectedFrequency, targetFrequency, numSamples, noise) ==
    IF detectedFrequency.sgn <= 0 \/ targetFrequency.sgn <= 0
    THEN processInvalid(e, numSamples)
    ELSE processValid(e, detectedFrequency, targetFrequency, numSamples, noise)

(***************************************************************************)
(* PsolaShifter.  Samples, window values, pitch ratios and the grain phase  *)
(* are in thousandths, periods in hundredths of a sample; stream positions  *)
(* are integers.  The shifter is the record of its members; a grain is      *)
(* [samples, window, outputPosition, centerPosition, period].               *)
(***************************************************************************)
\* 1.0f in thousandths
One == 10 * 100

\* one sample in the unit of the periods
PerSample == 10 * 10

\* the zero-filled buffer of size n
Zeros(n) == [k \in 1..n |-> 0]

\* PsolaShifter::getHannWindow: 0.5 * (1 - cos (2 pi index / (size - 1))), which
\* is the square of sin (pi index / (size - 1))
getHannWindow(index, size) ==
    IF size <= 1 THEN One
    ELSE LET sn == Sin(((TwoPi \div 2) * index) \div (size - 1))
         IN  (sn * sn) \div One

\* inputBuffer[pos % inputBufSize], the index made non-negative
BufferAt(ps, pos) == ps.inputBuffer[(pos % Len(ps.inputBuffer)) + 1]

RECURSIVE PeakScan(_, _, _, _, _)
\* the search loop of alignToPeak from pos on
PeakScan(ps, pos, end, bestPos, bestValue) ==
    IF pos > end THEN bestPos
    ELSE LET magnitude == Abs(BufferAt(ps, pos))
         IN  IF magnitude > bestValue
             THEN PeakScan(ps, pos + 1, end, pos, magnitude)
             ELSE PeakScan(ps, pos + 1, end, bestPos, bestValue)

\* PsolaShifter::alignToPeak
alignToPeak(ps, center, searchRadius, minCenter, maxCenter) ==
    IF Len(ps.inputBuffer) = 0 THEN center
    ELSE PeakScan(ps, jmax(center - searchRadius, minCenter),
                  jmin(center + searchRadius, maxCenter), center, -1)

\* the reset that leaves the write position where it is
psolaReset_position(ps) ==
    [ps EXCEPT !.inputBuffer = Zeros(Len(ps.inputBuffer)),
               !.activeGrains = << >>, !.lastPeriod = 0, !.grainPhase = 0,
               !.inputReadPosition = -1, !.totalInputSamples = 0,
               !.totalOutputSamples = 0]

\* PsolaShifter::reset
psolaReset(ps) ==
    [ps EXCEPT !.inputBuffer = Zeros(Len(ps.inputBuffer)), !.inputWritePos = 0,
               !.activeGrains = << >>, !.lastPeriod = 0, !.grainPhase = 0,
               !.inputReadPosition = -1, !.totalInputSamples = 0,
               !.totalOutputSamples = 0]

\* prepare making the latency depend on the block size
psolaPrepare_block(sampleRate, maxBlockSize) ==
    LET maxPeriod == sampleRate \div 50
    IN  psolaReset([currentSampleRate |-> sampleRate,
                    maxPeriodSamples |-> maxPeriod,
                    minPeriodSamples |-> sampleRate \div 1000,
                    inputBuffer |-> Zeros(maxPeriod * 8 + maxBlockSize),
                    latencySamples |-> maxPeriod * 2 + maxBlockSize,
                    inputWritePos |-> 0, activeGrains |-> << >>, lastPeriod |-> 0,
                    grainPhase |-> 0, inputReadPosition |-> 0,
                    totalInputSamples |-> 0, totalOutputSamples |-> 0])

\* PsolaShifter::prepare on a newly constructed shifter
psolaPrepare(sampleRate, maxBlockSize) ==
    LET maxPeriod == sampleRate \div 50
    IN  psolaReset([currentSampleRate |-> sampleRate,
                    maxPeriodSamples |-> maxPeriod,
                    minPeriodSamples |-> sampleRate \div 1000,
                    inputBuffer |-> Zeros(maxPeriod * 8 + maxBlockSize),
                    latencySamples |-> maxPeriod * 2,
                    inputWritePos |-> 0, activeGrains |-> << >>, lastPeriod |-> 0,
                    grainPhase |-> 0, inputReadPosition |-> 0,
                    totalInputSamples |-> 0, totalOutputSamples |-> 0])

\* the loop writing input[i ..] to the circular buffer: slot j takes the last
\* of the samples written to it, the samples counted from 0
WriteInput(ps, input, i) ==
    LET inputBufSize == Len(ps.inputBuffer)
        count == Len(input) - i + 1
        first(j) == (j - 1 - ps.inputWritePos) % inputBufSize
        last(j) == first(j) + inputBufSize * ((count - 1 - first(j)) \div inputBufSize)
    IN  IF count <= 0 THEN ps
        ELSE [ps EXCEPT !.inputBuffer = [j \in 1..inputBufSize |->
                                            IF first(j) < count THEN input[i + last(j)]
                                            ELSE ps.inputBuffer[j]],
                        !.inputWritePos = (ps.inputWritePos + count) % inputBufSize]

\* the grain holding the window where the windowed samples belong
MakeGrain_window(ps, inputStart, inputCenter, grainSize, outputPosition, period) ==
    [samples |-> [k \in 1..grainSize |-> getHannWindow(k - 1, grainSize)],
     window |-> [k \in 1..grainSize |-> getHannWindow(k - 1, grainSize)],
     outputPosition |-> outputPosition,
     centerPosition |-> inputCenter,
     period |-> period]

\* the grain extracted at inputStart for the output position outputPosition
MakeGrain(ps, inputStart, inputCenter, grainSize, outputPosition, period) ==
    [samples |-> [k \in 1..grainSize |->
                     TruncDiv(BufferAt(ps, inputStart + k - 1)
                              * getHannWindow(k - 1, grainSize), One)],
     window |-> [k \in 1..grainSize |-> getHannWindow(k - 1, grainSize)],
     outputPosition |-> outputPosition,
     centerPosition |-> inputCenter,
     period |-> period]

RECURSIVE SpawnGrains(_, _, _, _)
\* the "while (grainPhase >= 1.0f)" loop for the output position outputPosition
SpawnGrains(ps, outputPosition, period, periodInt) ==
    IF ps.grainPhase < One THEN ps
    ELSE LET grainSize == periodInt * 2
             inputBufSize == Len(ps.inputBuffer)
             next == [ps EXCEPT !.grainPhase = ps.grainPhase - One]
             oldestAvailable == ps.totalInputSamples - inputBufSize
             minCenter == oldestAvailable + grainSize \div 2
             maxCenter == ps.totalInputSamples - grainSize \div 2
             clampedCenter == jlimit(minCenter, maxCenter, ps.inputReadPosition)
             inputCenter == alignToPeak(ps, clampedCenter, jmax(1, periodInt \div 2),
                                        minCenter, maxCenter)
             inputStart == inputCenter - grainSize \div 2
         IN  IF maxCenter < minCenter
             THEN SpawnGrains(next, outputPosition, period, periodInt)
             ELSE IF inputStart >= oldestAvailable
             THEN SpawnGrains(
                      [next EXCEPT !.activeGrains =
                           Append(ps.activeGrains,
                                  MakeGrain(ps, inputStart, inputCenter, grainSize,
                                            outputPosition, period))],
                      outputPosition, period, periodInt)
             ELSE SpawnGrains(next, outputPosition, period, periodInt)

\* relIdx of the output position in a grain
RelIdx(grain, currentOutputIdx) ==
    currentOutputIdx - (grain.outputPosition - Len(grain.samples) \div 2)

RECURSIVE OverlapSum(_, _, _, _)
\* the sum over activeGrains[k ..] of field (samples or window) at the output
\* position
OverlapSum(grains, k, currentOutputIdx, field) ==
    IF k > Len(grains) THEN 0
    ELSE LET relIdx == RelIdx(grains[k], currentOutputIdx)
         IN  (IF relIdx >= 0 /\ relIdx < Len(grains[k].samples)
              THEN grains[k][field][relIdx + 1] ELSE 0)
             + OverlapSum(grains, k + 1, currentOutputIdx, field)

\* the overlap-add of one output sample
OverlapAdd(grains, currentOutputIdx) ==
    LET outValue == OverlapSum(grains, 1, currentOutputIdx, "samples")
        windowSum == OverlapSum(grains, 1, currentOutputIdx, "window")
    IN  IF windowSum > 0 THEN TruncDiv(outValue * One, windowSum) ELSE outValue

RECURSIVE SynthLoop(_, _, _, _, _, _, _)
\* the per-sample loop of process from outSample on: [ps, output]
SynthLoop(ps, output, outSample, numSamples, phaseIncrement, period, periodInt) ==
    IF outSample >= numSamples THEN [ps |-> ps, output |-> output]
    ELSE LET advanced == [ps EXCEPT !.inputReadPosition = ps.inputReadPosition + 1,
                                    !.grainPhase = ps.grainPhase + phaseIncrement]
             spawned == SpawnGrains(advanced, ps.totalOutputSamples + outSample,
                                    period, periodInt)
             outValue == OverlapAdd(spawned.activeGrains,
                                    ps.totalOutputSamples + outSample)
         IN  SynthLoop(spawned, Append(output, outValue), outSample + 1, numSamples,
                       phaseIncrement, period, periodInt)

RECURSIVE EvictFinished_strict(_, _)
\* the cleanup loop keeping a grain that ends exactly at blockEnd
EvictFinished_strict(grains, blockEnd) ==
    IF grains = << >> THEN grains
    ELSE IF grains[1].outputPosition + Len(grains[1].samples) \div 2 < blockEnd
    THEN EvictFinished_strict(Tail(grains), blockEnd)
    ELSE grains

RECURSIVE EvictFinished(_, _)
\* the cleanup loop: pop grains off the front while they end by blockEnd
EvictFinished(grains, blockEnd) ==
    IF grains = << >> THEN grains
    ELSE IF grains[1].outputPosition + Len(grains[1].samples) \div 2 <= blockEnd
    THEN EvictFinished(Tail(grains), blockEnd)
    ELSE grains

\* the pass-through branch leaving the grains and the phase as they are
processUnvoiced_keep(ps, hasInput, input, numSamples) ==
    [ps |-> [ps EXCEPT !.totalOutputSamples = ps.totalOutputSamples + numSamples],
     output |-> IF hasInput THEN input ELSE Zeros(numSamples),
     grains |-> << >>]

\* the pass-through branch of process, ps being the shifter after the input
\* was written: [ps, output, grains], grains being the queue the overlap-add
\* of the block summed over
processUnvoiced(ps, hasInput, input, numSamples) ==
    [ps |-> [ps EXCEPT !.lastPeriod = 0, !.grainPhase = 0, !.inputReadPosition = -1,
                       !.activeGrains = << >>,
                       !.totalOutputSamples = ps.totalOutputSamples + numSamples],
     output |-> IF hasInput THEN input ELSE Zeros(numSamples),
     grains |-> << >>]

\* the voiced branch of process, ps being the shifter after the input was
\* written: [ps, output, grains]
processVoiced(ps, numSamples, pitchRatio, detectedPeriod) ==
    LET clampedPeriod == jlimit(ps.minPeriodSamples * PerSample,
                                ps.maxPeriodSamples * PerSample, detectedPeriod)
        period == IF ps.lastPeriod <= 0 THEN clampedPeriod
                  ELSE (ps.lastPeriod * 9 + clampedPeriod) \div 10
        periodInt == jmax(ps.minPeriodSamples, (period + PerSample \div 2) \div PerSample)
        phaseIncrement == (pitchRatio * PerSample) \div period
        started == IF ps.inputReadPosition < 0
                   THEN [ps EXCEPT !.lastPeriod = period,
                                   !.inputReadPosition = ps.totalInputSamples - numSamples,
                                   !.grainPhase = One]
                   ELSE [ps EXCEPT !.lastPeriod = period]
        done == SynthLoop(started, << >>, 0, numSamples, phaseIncrement, period, periodInt)
    IN  [ps |-> [done.ps EXCEPT
                    !.activeGrains = EvictFinished(done.ps.activeGrains,
                                                   ps.totalOutputSamples + numSamples),
                    !.totalOutputSamples = ps.totalOutputSamples + numSamples],
         output |-> done.output,
         grains |-> done.ps.activeGrains]

\* PsolaShifter::process with a non-null output; hasInput is "input != nullptr":
\* [ps, output, grains]
psolaProcess(ps, hasInput, input, numSamples, pitchRatio, detectedPeriod, confidence) ==
    IF numSamples <= 0 THEN [ps |-> ps, output |-> << >>, grains |-> << >>]
    ELSE LET ratio == jlimit(One \div 2, 2 * One, pitchRatio)
             written == IF hasInput
                        THEN [WriteInput(ps, input, 1) EXCEPT
                                 !.totalInputSamples = ps.totalInputSamples + numSamples]
                        ELSE ps
         IN  IF detectedPeriod <= 0 \/ confidence < 200
             THEN processUnvoiced(written, hasInput, input, numSamples)
             ELSE processVoiced(written, numSamples, ratio, detectedPeriod)

(***************************************************************************)
(* PitchDetector.  Samples are integers (the detector's statistics depend   *)
(* on the scale of the signal only through the energy floor), V / E ratios, *)
(* epsilon and confidences are in thousandths, periods in hundredths of a   *)
(* sample and frequencies in thousandths of a Hz.  The detector is the      *)
(* record of its members; fineScores keeps the V of every lag, which is all *)
(* that is read back from it.                                               *)
(***************************************************************************)
downsampleFactor == 8

filterTaps == 33

\* one Hz in the unit of the frequencies
HzUnit == 10 * 100

\* "E < 1e-9": an energy of integer samples is below the floor when it is 0
BelowFloor(E) == E <= 0

\* the tap n of the windowed sinc of prepare, before normalisation
FilterTap(n) ==
    LET x == Abs(n - filterTaps \div 2)
        w == Sin(((TwoPi \div 2) * n) \div (filterTaps - 1))
        window == (w * w) \div One
        sinc == IF x = 0 THEN (2 * One) \div (2 * downsampleFactor)
                ELSE TruncDiv(Sin((TwoPi * x) \div (2 * downsampleFactor)) * One,
                              (TwoPi \div 2) * x)
    IN  TruncDiv(window * sinc, One)

\* decimationFilter before normalisation, tap n at index n + 1
decimationFilter == [k \in 1..filterTaps |-> FilterTap(k - 1)]

RECURSIVE SeqSum(_, _, _)
\* std::accumulate over seq[a .. b], summed by halves
SeqSum(seq, a, b) ==
    IF a > b THEN 0
    ELSE IF a = b THEN seq[a]
    ELSE SeqSum(seq, a, (a + b) \div 2) + SeqSum(seq, (a + b) \div 2 + 1, b)

\* the sum the taps are normalised by
FilterSum == SeqSum(decimationFilter, 1, filterTaps)

\* PitchDetector::PeriodScore
NoScore == [E |-> 0, H |-> 0, V |-> 0]

\* PitchDetector::Result as default-initialised
EmptyResult == [frequency |-> 0, period |-> 0, confidence |-> 0, voiced |-> FALSE]

\* PitchDetector::reset
detectorReset(d) ==
    [d EXCEPT !.inputBuffer = Zeros(Len(d.inputBuffer)), !.inputWritePos = 0,
              !.lastPeriod = 0, !.lastConfidence = 0, !.stableFrameCount = 0]

\* PitchDetector::prepare on a newly constructed detector, whose minFreqHz
\* is 80
detectorPrepare(sr) ==
    LET maxPeriod == sr \div 80
        analysisWindowSize == maxPeriod * 4
    IN  detectorReset([sampleRate |-> sr,
                       analysisWindowSize |-> analysisWindowSize,
                       inputBuffer |-> Zeros(analysisWindowSize * 2),
                       inputWritePos |-> 0,
                       fineScores |-> Zeros(analysisWindowSize \div 2),
                       lastPeriod |-> 0, lastConfidence |-> 0, stableFrameCount |-> 0,
                       inputType |-> "AltoTenor",
                       minFreqHz |-> 80 * HzUnit, maxFreqHz |-> 800 * HzUnit,
                       epsilon |-> 150])

\* PitchDetector::setFrequencyRange
setFrequencyRange(d, minHz, maxHz) ==
    LET lo == jmax(20 * HzUnit, minHz)
        hi == jmin(2000 * HzUnit, maxHz)
    IN  IF lo > hi THEN [d EXCEPT !.minFreqHz = hi, !.maxFreqHz = lo]
        ELSE [d EXCEPT !.minFreqHz = lo, !.maxFreqHz = hi]

\* PitchDetector::InputType
InputTypes == { "Soprano", "AltoTenor", "LowMale", "Instrument", "BassInstrument" }

\* the range of each preset, in Hz
InputTypeRange(type) ==
    CASE type = "Soprano" -> << 200, 1200 >>
      [] type = "AltoTenor" -> << 100, 600 >>
      [] type = "LowMale" -> << 60, 300 >>
      [] type = "Instrument" -> << 80, 2000 >>
      [] type = "BassInstrument" -> << 30, 250 >>

\* PitchDetector::setInputType
setInputType(d, type) ==
    setFrequencyRange([d EXCEPT !.inputType = type],
                      InputTypeRange(type)[1] * HzUnit, InputTypeRange(type)[2] * HzUnit)

\* the loop of process writing the input to the circular buffer: slot j takes
\* the last input[k] written to it, k counted from 0
AccumulateInput(d, input) ==
    LET bufferSize == Len(d.inputBuffer)
        numSamples == Len(input)
        first(j) == (j - 1 - d.inputWritePos) % bufferSize
        last(j) == first(j) + bufferSize * ((numSamples - 1 - first(j)) \div bufferSize)
    IN  [d EXCEPT !.inputBuffer = [j \in 1..bufferSize |->
                                      IF first(j) < numSamples THEN input[last(j) + 1]
                                      ELSE d.inputBuffer[j]],
                  !.inputWritePos = (d.inputWritePos + numSamples) % bufferSize]

\* the analysis frame of process: the last analysisWindowSize samples with
\* their mean removed
AnalysisFrame(d) ==
    LET bufferSize == Len(d.inputBuffer)
        raw == [k \in 1..d.analysisWindowSize |->
                   d.inputBuffer[((d.inputWritePos - d.analysisWindowSize + k - 1)
                                  % bufferSize) + 1]]
        mean == TruncDiv(SeqSum(raw, 1, d.analysisWindowSize), d.analysisWindowSize)
    IN  [k \in 1..d.analysisWindowSize |-> raw[k] - mean]

\* the inner loop of downsample for the output at inputIdx
FilterAcc(input, inputIdx) ==
    SeqSum([k \in 1..filterTaps |->
               LET sampleIdx == inputIdx - filterTaps \div 2 + k - 1
               IN  IF sampleIdx >= 0 /\ sampleIdx < Len(input)
                   THEN input[sampleIdx + 1] * decimationFilter[k] ELSE 0],
           1, filterTaps)

\* PitchDetector::downsample: the first inputSize / downsampleFactor entries
\* of downsampledBuffer
downsample(input) ==
    [n \in 1..(Len(input) \div downsampleFactor) |->
        TruncDiv(FilterAcc(input, (n - 1) * downsampleFactor), FilterSum)]

\* PitchDetector::evaluatePeriod, dataSize being Len(data)
evaluatePeriod(data, lag) ==
    IF lag <= 0 \/ lag * 2 >= Len(data) THEN NoScore
    ELSE LET windowEnd == Len(data)
             windowStart == jmax(0, windowEnd - lag * 2)
             energy == SeqSum([n \in 1..windowEnd |-> data[n] * data[n]],
                              windowStart + 1, windowEnd)
             correlation == SeqSum([n \in 1..windowEnd |->
                                       IF n - 1 - lag >= windowStart
                                       THEN data[n] * data[n - lag] ELSE 0],
                                   windowStart + 1, windowEnd)
         IN  [E |-> energy, H |-> correlation, V |-> energy - 2 * correlation]

\* score.V / score.E
ScoreRatio(score) == TruncDiv(score.V * One, score.E)

RECURSIVE SearchScan_noskip(_, _, _, _, _)
\* the scan that does not skip the candidates below the energy floor (their
\* ratio taken as 0)
SearchScan_noskip(data, lag, maxLag, best, scores) ==
    IF lag > maxLag THEN [best |-> best, scores |-> scores]
    ELSE LET score == evaluatePeriod(data, lag)
             stored == [scores EXCEPT ![lag + 1] = score]
             ratio == IF score.E = 0 THEN 0 ELSE TruncDiv(score.V * One, score.E)
         IN  IF ratio < best.ratio
             THEN SearchScan_noskip(data, lag + 1, maxLag,
                                    [lag |-> lag, ratio |-> ratio, E |-> score.E],
                                    stored)
             ELSE SearchScan_noskip(data, lag + 1, maxLag, best, stored)

RECURSIVE SearchScan(_, _, _, _, _)
\* the scan of coarseSearch and of fineSearch from lag on: the best lag, its
\* ratio and energy so far, and the V of every lag evaluated
SearchScan(data, lag, maxLag, best, scores) ==
    IF lag > maxLag THEN [best |-> best, scores |-> scores]
    ELSE LET score == evaluatePeriod(data, lag)
             stored == [scores EXCEPT ![lag + 1] = score]
         IN  IF BelowFloor(score.E)
             THEN SearchScan(data, lag + 1, maxLag, best, stored)
             ELSE IF ScoreRatio(score) < best.ratio
             THEN SearchScan(data, lag + 1, maxLag,
                             [lag |-> lag, ratio |-> ScoreRatio(score), E |-> score.E],
                             stored)
             ELSE SearchScan(data, lag + 1, maxLag, best, stored)

\* no candidate chosen yet: bestLag = -1, bestRatio = 1.0
NoBest == [lag |-> -1, ratio |-> One, E |-> 0]

\* minLag and maxLag of coarseSearch
coarseMinLag(d) ==
    jmax(2, (d.sampleRate * HzUnit) \div (downsampleFactor * d.maxFreqHz))

coarseMaxLag(d) ==
    jmin(110, (d.sampleRate * HzUnit) \div (downsampleFactor * d.minFreqHz))

\* the lags the loop of coarseSearch evaluates
CoarseLags(d, data) ==
    IF coarseMaxLag(d) <= coarseMinLag(d) \/ coarseMaxLag(d) >= Len(data) \div 2
    THEN {}
    ELSE coarseMinLag(d)..jmin(coarseMaxLag(d), 119)

\* minLag and maxLag of fineSearch
fineMinLag(coarseLag) == jmax(2, coarseLag - downsampleFactor * 3)

fineMaxLag(data, coarseLag) ==
    jmin(Len(data) \div 2 - 1, coarseLag + downsampleFactor * 3)

\* the lags the loop of fineSearch evaluates
FineLags(data, coarseLag) ==
    IF fineMaxLag(data, coarseLag) <= fineMinLag(coarseLag) THEN {}
    ELSE fineMinLag(coarseLag)..fineMaxLag(data, coarseLag)

\* the lags a search skips: the energy it computed for them is below the floor
SkippedLags(scores, lags) == { lag \in lags : BelowFloor(scores[lag + 1].E) }

\* the result of coarseSearch once its loop has run (scan): bestLag, or half
\* of it when that scores below 0.5 as well
coarseChoice(d, data, scan, none) ==
    LET minLag == coarseMinLag(d)
        maxLag == coarseMaxLag(d)
        bestLag == scan.best.lag
        halfLag == scan.best.lag \div 2
        halfScore == scan.scores[scan.best.lag \div 2 + 1]
    IN  IF maxLag <= minLag \/ maxLag >= Len(data) \div 2 THEN none
        ELSE IF bestLag <= 0 \/ scan.best.ratio > One \div 2 THEN none
        ELSE IF /\ halfLag >= minLag
                /\ halfLag < 120
                /\ ~ BelowFloor(halfScore.E)
                /\ ScoreRatio(halfScore) < One \div 2
        THEN [none EXCEPT !.lag = halfLag, !.E = halfScore.E]
        ELSE [none EXCEPT !.lag = bestLag, !.E = scan.best.E]

\* PitchDetector::coarseSearch, downsampledSize being Len(data):
\* [lag, E, lags, skipped], lag the lag returned (-1: none), E its energy,
\* lags and skipped the lags the loop evaluated and skipped
coarseSearch(d, data) ==
    With(SearchScan(data, coarseMinLag(d), jmin(coarseMaxLag(d), 119), NoBest,
                    [k \in 1..120 |-> NoScore]),
         LAMBDA scan :
             coarseChoice(d, data, scan,
                          [lag |-> -1, E |-> 0, lags |-> CoarseLags(d, data),
                           skipped |-> IF CoarseLags(d, data) = {} THEN {}
                                       ELSE SkippedLags(scan.scores, CoarseLags(d, data))]))

\* PitchDetector::refineWithQuadratic on the V of the scores, in hundredths
\* of a sample
refineWithQuadratic(bestLag, scoresV) ==
    IF bestLag <= 0 \/ bestLag >= Len(scoresV) - 1 THEN bestLag * PerSample
    ELSE LET v1 == scoresV[bestLag]
             v2 == scoresV[bestLag + 1]
             v3 == scoresV[bestLag + 2]
             denom == v1 - 2 * v2 + v3
         IN  IF denom = 0 THEN bestLag * PerSample
             ELSE bestLag * PerSample + TruncDiv((PerSample \div 2) * (v1 - v3), denom)

\* the lags whose scores refineWithQuadratic reads
RefinedLags(bestLag, scoresV) ==
    IF bestLag <= 0 \/ bestLag >= Len(scoresV) - 1 THEN {}
    ELSE { bestLag - 1, bestLag, bestLag + 1 }

\* the result of fineSearch once its loop has run (scan) over the resized
\* fineScores
fineChoice(d, scan, found) ==
    IF scan.best.lag <= 0 \/ scan.best.ratio > d.epsilon THEN found
    ELSE [found EXCEPT !.period = refineWithQuadratic(scan.best.lag, found.fineScores),
                       !.read = RefinedLags(scan.best.lag, found.fineScores)]

\* the loop of fineSearch over fineScores resized (sized)
fineScan(d, data, coarseLag, sized) ==
    With(SearchScan(data, fineMinLag(coarseLag), fineMaxLag(data, coarseLag), NoBest,
                    [k \in 1..Len(sized) |-> [NoScore EXCEPT !.V = sized[k]]]),
         LAMBDA scan :
             fineChoice(d, scan,
                        [period |-> -PerSample, lag |-> scan.best.lag, E |-> scan.best.E,
                         lags |-> FineLags(data, coarseLag),
                         skipped |-> SkippedLags(scan.scores, FineLags(data, coarseLag)),
                         read |-> {},
                         fineScores |-> [k \in 1..Len(sized) |-> scan.scores[k].V]]))

\* PitchDetector::fineSearch, dataSize being Len(data):
\* [period, lag, E, lags, skipped, read, fineScores], lag the candidate
\* chosen (-1: none), E its energy, lags and skipped the lags the loop
\* evaluated and skipped, read the lags whose scores the refinement read
fineSearch(d, data, coarseLag) ==
    IF fineMaxLag(data, coarseLag) <= fineMinLag(coarseLag)
    THEN [period |-> -PerSample, lag |-> -1, E |-> 0, lags |-> {}, skipped |-> {},
          read |-> {}, fineScores |-> d.fineScores]
    ELSE fineScan(d, data, coarseLag,
                  IF fineMaxLag(data, coarseLag) + 1 > Len(d.fineScores)
                  THEN d.fineScores
                           \o Zeros(fineMaxLag(data, coarseLag) + 2 - Len(d.fineScores))
                  ELSE d.fineScores)

\* sampleRate / refinedPeriod, in thousandths of a Hz
FrequencyOf(sr, period) == (sr * HzUnit * PerSample) \div period

\* the confidence and hysteresis of process for the score of the period
scoreConfidence(d, refinedPeriod, frequency, score) ==
    LET raw == jlimit(0, One, One - TruncDiv(ScoreRatio(score) * One, d.epsilon))
        stable == /\ d.lastPeriod > 0
                  /\ refinedPeriod * 100 > 95 * d.lastPeriod
                  /\ refinedPeriod * 100 < 105 * d.lastPeriod
        count == IF d.lastPeriod <= 0 THEN d.stableFrameCount
                 ELSE IF stable THEN d.stableFrameCount + 1 ELSE 0
        confidence == IF stable THEN jmin(One, raw + (100 * count) \div 10) ELSE raw
    IN  IF BelowFloor(score.E) THEN [d |-> d, result |-> EmptyResult]
        ELSE [d |-> [d EXCEPT !.stableFrameCount = count,
                              !.lastPeriod = refinedPeriod,
                              !.lastConfidence = confidence],
              result |-> [frequency |-> frequency, period |-> refinedPeriod,
                          confidence |-> confidence, voiced |-> confidence > 200]]

\* the confidence and hysteresis part of process, for a period in the band:
\* [d, result]
detectorScore(d, frame, refinedPeriod, frequency) ==
    scoreConfidence(d, refinedPeriod, frequency,
                    evaluatePeriod(frame, (refinedPeriod + PerSample \div 2) \div PerSample))

\* what a search that was not run has chosen
NotRun == [lag |-> 0, E |-> 0, lags |-> {}, skipped |-> {}, read |-> {}]

\* the candidate a fineSearch chose, and the lags it evaluated and skipped
Chosen(fine) ==
    [lag |-> fine.lag, E |-> fine.E, lags |-> fine.lags, skipped |-> fine.skipped,
     read |-> fine.read]

\* process without the check of the frequency against the band
detectorProcess_noband(d, input) ==
    IF Len(input) <= 0
    THEN [d |-> d, result |-> EmptyResult, coarse |-> NotRun, fine |-> NotRun]
    ELSE
      With(AccumulateInput(d, input), LAMBDA written :
      With(AnalysisFrame(written), LAMBDA frame :
      With(coarseSearch(written, downsample(frame)), LAMBDA coarse :
          IF coarse.lag <= 0
          THEN [d |-> written, result |-> EmptyResult, coarse |-> coarse,
                fine |-> NotRun]
          ELSE
            With(fineSearch(written, frame, coarse.lag * downsampleFactor), LAMBDA fine :
            With([written EXCEPT !.fineScores = fine.fineScores], LAMBDA searched :
            With(FrequencyOf(d.sampleRate, fine.period), LAMBDA frequency :
              IF fine.period <= 0
              THEN [d |-> searched, result |-> EmptyResult, coarse |-> coarse,
                    fine |-> Chosen(fine)]
              ELSE With(detectorScore(searched, frame, fine.period, frequency),
                        LAMBDA scored :
                            [d |-> scored.d, result |-> scored.result,
                             coarse |-> coarse, fine |-> Chosen(fine)])))))))

\* PitchDetector::process with a non-null input: [d, result, coarse, fine],
\* coarse and fine being the candidates the two searches chose
detectorProcess(d, input) ==
    IF Len(input) <= 0
    THEN [d |-> d, result |-> EmptyResult, coarse |-> NotRun, fine |-> NotRun]
    ELSE
      With(AccumulateInput(d, input), LAMBDA written :
      With(AnalysisFrame(written), LAMBDA frame :
      With(coarseSearch(written, downsample(frame)), LAMBDA coarse :
          IF coarse.lag <= 0
          THEN [d |-> written, result |-> EmptyResult, coarse |-> coarse,
                fine |-> NotRun]
          ELSE
            With(fineSearch(written, frame, coarse.lag * downsampleFactor), LAMBDA fine :
            With([written EXCEPT !.fineScores = fine.fineScores], LAMBDA searched :
            With(FrequencyOf(d.sampleRate, fine.period), LAMBDA frequency :
              IF fine.period <= 0
              THEN [d |-> searched, result |-> EmptyResult, coarse |-> coarse,
                    fine |-> Chosen(fine)]
              ELSE IF frequency < d.minFreqHz \/ frequency > d.maxFreqHz
              THEN [d |-> searched, result |-> EmptyResult, coarse |-> coarse,
                    fine |-> Chosen(fine)]
              ELSE With(detectorScore(searched, frame, fine.period, frequency),
                        LAMBDA scored :
                            [d |-> scored.d, result |-> scored.result,
                             coarse |-> coarse, fine |-> Chosen(fine)])))))))

(***************************************************************************)
(* PitchCorrectionEngine.  Frequencies are in hundredths of a hertz, MIDI   *)
(* notes in thousandths of a semitone (Semi), ratios, confidences and the   *)
(* 0..1 parameters in thousandths (One), times in microseconds.  The engine *)
(* is the record of the members that decide the pitch ratio; the estimate   *)
(* of estimatePitchFromAutocorrelation for a block is an input of process,  *)
(* and the audio path (analysis buffer, vocoder channels) is left out.      *)
(***************************************************************************)
\* 1 Hz in frequency units
CentiHz == 100

\* std::numeric_limits<float>::quiet_NaN()
NaN == -(2 ^ 30)

isnan(x) == x = NaN

\* PitchCorrectionEngine::referenceFrequency (440 Hz), in frequency units
referenceFrequency == 440 * CentiHz

\* PitchCorrectionEngine::referenceMidiNote
referenceMidiNote == 69

\* 2 ^ (k / 12) for k = 0 .. 12, in millionths
SemitonePowers ==
    << 1000000, 1059463, 1122462, 1189207, 1259921, 1334840, 1414214,
       1498307, 1587401, 1681793, 1781797, 1887749, 2000000 >>

\* std::pow (2.0f, lg / 12), lg in thousandths of a semitone, in millionths:
\* exact at whole semitones, linear between two of them
Pow2(lg) ==
    LET octave == lg \div (12 * Semi)
        within == lg % (12 * Semi)
        k == within \div Semi
        lo == SemitonePowers[k + 1]
        hi == SemitonePowers[k + 2]
        base == lo + ((hi - lo) * (within % Semi)) \div Semi
    IN  IF octave >= 0 THEN base * 2 ^ octave ELSE base \div 2 ^ (-octave)

RECURSIVE OctaveOf(_)
\* floor (log2 (freq / referenceFrequency)) for freq > 0
OctaveOf(freq) ==
    IF freq >= 2 * referenceFrequency THEN OctaveOf(freq \div 2) + 1
    ELSE IF freq < referenceFrequency THEN OctaveOf(freq * 2) - 1
    ELSE 0

\* the semitone j in 0 .. 11 with 2 ^ (j / 12) <= r < 2 ^ ((j + 1) / 12), r in
\* millionths, and the place of r between the two in thousandths of a semitone
SemitoneOf(r) ==
    With(CHOOSE j \in 0..11 : SemitonePowers[j + 1] <= r /\ r < SemitonePowers[j + 2],
         LAMBDA k : k * Semi + ((r - SemitonePowers[k + 1]) * Semi)
                                   \div (SemitonePowers[k + 2] - SemitonePowers[k + 1]))

\* 12 * std::log2 (freq / referenceFrequency) for freq > 0, the inverse of Pow2
Log2(freq) ==
    With(OctaveOf(freq),
         LAMBDA octave :
             octave * 12 * Semi
             + SemitoneOf(IF octave >= 0
                          THEN ((freq * 1000) \div (referenceFrequency \div 1000))
                                   \div 2 ^ octave
                          ELSE (freq * 2 ^ (-octave) * 1000)
                                   \div (referenceFrequency \div 1000)))

\* PitchCorrectionEngine::frequencyToMidiNote
frequencyToMidiNote(freq) == referenceMidiNote * Semi + Log2(freq)

\* PitchCorrectionEngine::midiNoteToFrequency
midiNoteToFrequency(midiNote) ==
    ((referenceFrequency \div 1000) * Pow2(midiNote - referenceMidiNote * Semi)) \div 1000

\* juce::jmap (value, 0, 1, targetMin, targetMax), value in thousandths
jmap01(value, targetMin, targetMax) ==
    targetMin + TruncDiv(value * (targetMax - targetMin), One)

\* PitchCorrectionEngine::Parameters as default-initialised; speed is in
\* microseconds (0.85 ms), toleranceCents in thousandths of a semitone
DefaultParameters ==
    [speed |-> 850, transition |-> 200, toleranceCents |-> 20,
     vibratoTracking |-> 500, rangeLowHz |-> 80 * CentiHz,
     rangeHighHz |-> 1000 * CentiHz, mask |-> FullMask, midiEnabled |-> FALSE,
     forceCorrection |-> TRUE]

\* PitchCorrectionEngine::reset
engineReset(e) ==
    [e EXCEPT !.ratioSmoother = setCurrentAndTargetValue(e.ratioSmoother, One),
              !.pitchSmoother = setCurrentAndTargetValue(e.pitchSmoother, 0),
              !.detectionSmoother = setCurrentAndTargetValue(e.detectionSmoother, 0),
              !.lastDetectedFrequency = 0, !.lastTargetFrequency = 0,
              !.lastDetectionConfidence = 0, !.lastStableDetectedFrequency = 0,
              !.lowConfidenceSampleCounter = 0,
              !.heldMidiNote = NaN, !.activeTargetMidi = NaN]

\* a newly constructed engine after PitchCorrectionEngine::prepare
enginePrepare(sampleRate) ==
    LET sm0 == [currentValue |-> 0, target |-> 0, countdown |-> 0,
                stepsToTarget |-> 0, step |-> 0]
    IN  [params |-> DefaultParameters, currentSampleRate |-> sampleRate,
         baseRatioGlideTime |-> 10000, baseTargetTransitionTime |-> 10000,
         ratioSmoother |->
             setCurrentAndTargetValue(smootherReset(sm0, sampleRate, 10000), One),
         pitchSmoother |->
             setCurrentAndTargetValue(smootherReset(sm0, sampleRate, 10000), 0),
         detectionSmoother |->
             setCurrentAndTargetValue(smootherReset(sm0, sampleRate, 50000), 0),
         lastDetectedFrequency |-> 0, lastTargetFrequency |-> 0,
         lastDetectionConfidence |-> 0, lastStableDetectedFrequency |-> 0,
         lowConfidenceSampleCounter |-> 0,
         heldMidiNote |-> NaN, activeTargetMidi |-> NaN]

\* PitchCorrectionEngine::prepare called on an engine in use: the sample rate
\* and the three smoothers are set, every other member is left as it is
enginePrepareAgain(e, sampleRate) ==
    [e EXCEPT !.currentSampleRate = sampleRate,
              !.baseRatioGlideTime = 10000, !.baseTargetTransitionTime = 10000,
              !.ratioSmoother =
                  setCurrentAndTargetValue(
                      smootherReset(e.ratioSmoother, sampleRate, 10000), One),
              !.pitchSmoother =
                  setCurrentAndTargetValue(
                      smootherReset(e.pitchSmoother, sampleRate, 10000), 0),
              !.detectionSmoother =
                  setCurrentAndTargetValue(
                      smootherReset(e.detectionSmoother, sampleRate, 50000), 0)]

\* PitchCorrectionEngine::setParameters
setParameters(e, newParams) ==
    LET glide == jlimit(500, 400000, jlimit(0, 400000, newParams.speed))
        transition == jmap01(newParams.transition, 1000, 80000)
        detectionTime == jmap01(newParams.vibratoTracking, 250000, 5000)
    IN  [e EXCEPT !.params = newParams,
                  !.baseRatioGlideTime = glide,
                  !.ratioSmoother =
                      smootherReset(e.ratioSmoother, e.currentSampleRate, glide),
                  !.baseTargetTransitionTime = transition,
                  !.pitchSmoother =
                      smootherReset(e.pitchSmoother, e.currentSampleRate, transition),
                  !.detectionSmoother =
                      smootherReset(e.detectionSmoother, e.currentSampleRate,
                                    detectionTime)]

\* one message of pushMidi's loop; a message is [kind, note] with kind
\* "on" (isNoteOn), "off" (isNoteOff) or "other"
pushMessage(held, m) ==
    IF m.kind = "on" THEN m.note * Semi
    ELSE IF m.kind = "off"
    THEN IF ~isnan(held) /\ TruncDiv(held, Semi) = m.note THEN NaN ELSE held
    ELSE held

RECURSIVE PushFrom(_, _, _)
\* the loop of pushMidi from message k of the buffer on
PushFrom(held, midiMessages, k) ==
    IF k > Len(midiMessages) THEN held
    ELSE PushFrom(pushMessage(held, midiMessages[k]), midiMessages, k + 1)

\* PitchCorrectionEngine::pushMidi
pushMidi(e, midiMessages) ==
    [e EXCEPT !.heldMidiNote = PushFrom(e.heldMidiNote, midiMessages, 1)]

\* holdSamples of analyseBlock: lowConfidenceHoldSeconds (0.12 s) in samples
holdSamplesAt(sampleRate) == jmax(1, (sampleRate * 12 + 50) \div 100)

\* PitchCorrectionEngine::analyseBlock with the estimator's result for the
\* block (frequency, confidence) given: the engine after the call
analyseBlock(e, frequency, confidence, numSamples) ==
    LET holdSamples == holdSamplesAt(e.currentSampleRate)
        e1 == [e EXCEPT !.lastDetectedFrequency = frequency,
                        !.lastDetectionConfidence = confidence]
        counter == jmin(e.lowConfidenceSampleCounter + numSamples, holdSamples)
    IN  IF frequency > 0 /\ confidence >= 50
        THEN [e1 EXCEPT !.lastStableDetectedFrequency = frequency,
                        !.lowConfidenceSampleCounter = 0,
                        !.detectionSmoother = setTargetValue(e.detectionSmoother, frequency)]
        ELSE IF e.lastStableDetectedFrequency > 0 /\ counter < holdSamples
        THEN [e1 EXCEPT !.lowConfidenceSampleCounter = counter,
                        !.detectionSmoother =
                            setTargetValue(e.detectionSmoother,
                                           e.lastStableDetectedFrequency)]
        ELSE IF e.lastStableDetectedFrequency > 0
        THEN [e1 EXCEPT !.lowConfidenceSampleCounter = counter,
                        !.lastStableDetectedFrequency = 0,
                        !.detectionSmoother = setTargetValue(e.detectionSmoother, 0)]
        ELSE [e1 EXCEPT !.detectionSmoother = setTargetValue(e.detectionSmoother, 0)]

RECURSIVE NoteScan(_, _, _, _, _, _)
\* the candidate loop of snapNoteToMask, from delta on
NoteScan(searchCenter, midiNote, mask, delta, bestMidi, bestDistance) ==
    IF delta > 24 THEN [bestMidi |-> bestMidi, bestDistance |-> bestDistance]
    ELSE LET candidate == searchCenter + delta
             pitchClass == positiveModulo(candidate, 12)
             distance == Abs(candidate * Semi - midiNote)
         IN  IF BitSet(mask, pitchClass) /\ distance < bestDistance
             THEN NoteScan(searchCenter, midiNote, mask, delta + 1, candidate, distance)
             ELSE NoteScan(searchCenter, midiNote, mask, delta + 1, bestMidi, bestDistance)

\* PitchCorrectionEngine::snapNoteToMask
snapNoteToMask(midiNote, mask) ==
    With(NoteScan((midiNote + Semi \div 2) \div Semi, midiNote, mask, -24,
                  (midiNote + Semi \div 2) \div Semi, FloatMax),
         LAMBDA scan :
             IF mask = 0 \/ scan.bestDistance = FloatMax THEN Round(midiNote) * Semi
             ELSE scan.bestMidi * Semi)

\* PitchCorrectionEngine::clampMidiToRange
clampMidiToRange(e, midi) ==
    jlimit(frequencyToMidiNote(e.params.rangeLowHz),
           frequencyToMidiNote(e.params.rangeHighHz), midi)

\* PitchCorrectionEngine::minimumConfidenceForLock
minimumConfidenceForLock(e) == jmap01(e.params.vibratoTracking, 180, 60)

\* PitchCorrectionEngine::applyTargetHysteresis: [e, midi]
applyTargetHysteresis(e, candidateMidi, rawMidi) ==
    LET hysteresis == jmap01(e.params.transition, 50, 450)
    IN  IF ~isnan(e.activeTargetMidi) /\ Abs(rawMidi - e.activeTargetMidi) < hysteresis
        THEN [e |-> e, midi |-> e.activeTargetMidi]
        ELSE [e |-> [e EXCEPT !.activeTargetMidi = candidateMidi], midi |-> candidateMidi]

\* the tolerance dead zone of chooseTargetFrequency: the final MIDI note
toleranceZone(e, snappedMidi, rawMidi) ==
    LET toleranceSemitones == e.params.toleranceCents
        deltaSemitones == Abs(snappedMidi - rawMidi)
        correctionMix ==
            jlimit(150, One, TruncDiv(deltaSemitones * One, jmax(toleranceSemitones, 1)))
    IN  IF toleranceSemitones > 0 /\ deltaSemitones < toleranceSemitones
        THEN IF ~e.params.forceCorrection THEN rawMidi
             ELSE rawMidi + TruncDiv((snappedMidi - rawMidi) * correctionMix, One)
        ELSE snappedMidi

\* chooseTargetFrequency once rawMidi and candidateMidi are computed
chooseFromCandidate(e, usingMidi, rawMidi, candidateMidi) ==
    IF usingMidi
    THEN [e |-> [e EXCEPT !.activeTargetMidi = candidateMidi],
          target |-> midiNoteToFrequency(candidateMidi)]
    ELSE IF e.lastDetectionConfidence < minimumConfidenceForLock(e)
    THEN IF e.lastTargetFrequency > 0
         THEN [e |-> e, target |-> e.lastTargetFrequency]
         ELSE [e |-> [e EXCEPT !.activeTargetMidi = candidateMidi],
               target |-> midiNoteToFrequency(candidateMidi)]
    ELSE With(applyTargetHysteresis(e, candidateMidi, rawMidi),
              LAMBDA hyst :
                  [e |-> hyst.e,
                   target |-> midiNoteToFrequency(toleranceZone(e, hyst.midi, rawMidi))])

\* chooseTargetFrequency once rawMidi is computed
chooseFromRaw(e, usingMidi, rawMidi) ==
    chooseFromCandidate(e, usingMidi, rawMidi,
                        clampMidiToRange(e, IF usingMidi THEN e.heldMidiNote
                                            ELSE snapNoteToMask(rawMidi, e.params.mask)))

\* PitchCorrectionEngine::chooseTargetFrequency: [e, target]
chooseTargetFrequency(e, detectedFrequency) ==
    IF detectedFrequency <= 0 THEN [e |-> e, target |-> 0]
    ELSE chooseFromRaw(e, e.params.midiEnabled /\ ~isnan(e.heldMidiNote),
                       frequencyToMidiNote(detectedFrequency))

\* PitchCorrectionEngine::computeDynamicRatioTime, in microseconds
computeDynamicRatioTime(e, detectedFrequency, targetFrequency) ==
    IF detectedFrequency <= 0 \/ targetFrequency <= 0
    THEN jlimit(1000, 200000, e.baseRatioGlideTime)
    ELSE LET semitoneDelta == Abs(frequencyToMidiNote(targetFrequency)
                                  - frequencyToMidiNote(detectedFrequency))
             vibratoFactor == jmap01(jlimit(0, One, e.params.vibratoTracking), 350, 1500)
             limitedDelta == jlimit(0, 4 * Semi, semitoneDelta)
             distanceFactor == 500 + TruncDiv(limitedDelta * 850, 4 * Semi)
             combined == jlimit(250, 1500, TruncDiv(vibratoFactor * distanceFactor, One))
         IN  jlimit(1000, 300000, TruncDiv(e.baseRatioGlideTime * combined, One))

\* PitchCorrectionEngine::computeDynamicTransitionTime, in microseconds
computeDynamicTransitionTime(e, detectedFrequency, targetFrequency) ==
    IF targetFrequency <= 0 THEN jlimit(1000, 400000, e.baseTargetTransitionTime)
    ELSE LET previousTarget == IF e.lastTargetFrequency > 0 THEN e.lastTargetFrequency
                               ELSE targetFrequency
             semitoneJump == Abs(frequencyToMidiNote(targetFrequency)
                                 - frequencyToMidiNote(previousTarget))
             limitedJump == jlimit(0, 7 * Semi, semitoneJump)
             distanceFactor == 450 + TruncDiv(limitedJump * 900, 7 * Semi)
         IN  jlimit(1000, 400000,
                    TruncDiv(e.baseTargetTransitionTime * jlimit(350, 1500, distanceFactor),
                             One))

\* the fallback of process when target selection failed for the frequency
\* detected: [e, detected, target]
fallbackChoice(e, detected, chosen) ==
    [e |-> chosen.e, detected |-> detected,
     target |-> IF chosen.target > 0 THEN chosen.target
                ELSE IF e.params.forceCorrection THEN detected * 2
                ELSE detected]

\* the fallback of process when detection or target selection failed:
\* [e, detected, target]
fallbackTarget(e) ==
    With(jmax(IF e.lastStableDetectedFrequency > 0 THEN e.lastStableDetectedFrequency
              ELSE (e.params.rangeLowHz + e.params.rangeHighHz) \div 2,
              CentiHz),
         LAMBDA detected : fallbackChoice(e, detected, chooseTargetFrequency(e, detected)))

\* the per-sample loop of process: sample i is given the ratio smoother's
\* value after i getNextValue calls, which advance a smoother as skip (i)
\* does: [ratioSmoother, pitchSmoother, ratioValues, finalTarget]
RatioLoop(rs, ps, numSamples) ==
    [ratioSmoother |-> skip(rs, numSamples), pitchSmoother |-> skip(ps, numSamples),
     ratioValues |-> [i \in 1..numSamples |->
                         jlimit(250, 4 * One, skip(rs, i - 1).currentValue)],
     finalTarget |-> skip(ps, numSamples - 1).currentValue]

\* the smoothing part of process, the detected and target frequencies chosen
\* (sel): [e, detected, target, ratio, ratioValues]
processSmoothed(sel, ratio, loop) ==
    [e |-> [sel.e EXCEPT !.ratioSmoother = loop.ratioSmoother,
                         !.pitchSmoother = loop.pitchSmoother,
                         !.lastTargetFrequency = loop.finalTarget],
     detected |-> sel.detected, target |-> sel.target, ratio |-> ratio,
     ratioValues |-> loop.ratioValues]

processRatio(sel, ratio, numSamples) ==
    processSmoothed(
        sel, ratio,
        RatioLoop(setTargetValue(
                      smootherReset(sel.e.ratioSmoother, sel.e.currentSampleRate,
                                    computeDynamicRatioTime(sel.e, sel.detected,
                                                            sel.target)),
                      ratio),
                  setTargetValue(
                      smootherReset(sel.e.pitchSmoother, sel.e.currentSampleRate,
                                    computeDynamicTransitionTime(sel.e, sel.detected,
                                                                 sel.target)),
                      sel.target),
                  numSamples))

processSelected(sel, numSamples) ==
    processRatio(sel, TruncDiv(sel.target * One, jmax(sel.detected, CentiHz)),
                 numSamples)

\* the target selection of process for the frequency detected
processChosen(detected, chosen, numSamples) ==
    processSelected(IF detected <= 0 \/ chosen.target <= 0 THEN fallbackTarget(chosen.e)
                    ELSE [e |-> chosen.e, detected |-> detected,
                          target |-> chosen.target],
                    numSamples)

processDetected(e, detected, numSamples) ==
    processChosen(detected, chooseTargetFrequency(e, detected), numSamples)

\* process after analyseBlock
processAnalysed(analysed, numSamples) ==
    processDetected([analysed EXCEPT !.detectionSmoother =
                                         skip(analysed.detectionSmoother, numSamples)],
                    IF analysed.detectionSmoother.currentValue <= 0
                    THEN analysed.lastDetectedFrequency
                    ELSE analysed.detectionSmoother.currentValue,
                    numSamples)

\* PitchCorrectionEngine::process on a buffer of numSamples samples for which
\* the estimator returns (frequency, confidence):
\* [e, detected, target, ratio, ratioValues]
engineProcess(e, frequency, confidence, numSamples) ==
    processAnalysed(analyseBlock(e, frequency, confidence, numSamples), numSamples)

(***************************************************************************)
(* State                                                                    *)
(***************************************************************************)
VARIABLES
    maskCall,     \* the last call of the two mask helpers: arguments and results
    settings,     \* ScaleMapper::settings
    currentMask,  \* ScaleMapper::currentMask
    mapCall,      \* the last ScaleMapper::map call: arguments and MapResult
    retune,       \* the RetuneEngine's members
    retuneCall,   \* the last RetuneEngine::process call: its kind and return value,
                  \* the settings, its target and that of the valid call before
                  \* it (none: 0), and the ramp length the smoother was left with
    heldRatio,    \* the return value of the last process call with valid
                  \* frequencies since prepare/reset (unity when there was none)
    retuneBlocks, \* the number of process calls made
    psola,        \* the PsolaShifter's members
    psolaCall,    \* the last PsolaShifter::process call: arguments, output and
                  \* the grains its overlap-add summed over
    psolaOnset,   \* totalOutputSamples on return from the last unvoiced call
                  \* (or reset): where the next voiced onset block starts
    psolaSilent,  \* every input sample since prepare/reset was zero
    psolaSum,     \* the sum of numSamples over the process calls since prepare/reset
    psolaFed,     \* every process call since prepare/reset had a non-null input
    psolaBlocks,  \* the number of PsolaShifter::process calls made
    freshDet,     \* a PitchDetector constructed and prepared when detector was last
                  \* reset, with its settings, and given the same calls since
    detector,     \* the PitchDetector's members
    detCall,      \* the last PitchDetector::process call: its result, the band
                  \* and the lock-in state it started from, and for each
                  \* search the lags evaluated and skipped and the one chosen
    detBlocks,    \* the number of PitchDetector::process calls made
    engine,       \* the PitchCorrectionEngine's members
    midiUnmatched, \* the note numbers of the note-ons pushed since reset that no
                  \* later note-off of the same number followed, oldest first
    midiEvents,   \* the number of MIDI messages pushed
    engineCall,   \* the last PitchCorrectionEngine::process call: the estimate,
                  \* the state it started from, the target chosen and the
                  \* per-sample ratios handed to the vocoder
    engineBlocks, \* the number of PitchCorrectionEngine::process calls made
    twinA,        \* a RetuneEngine
    twinB,        \* a second RetuneEngine, prepared and set up as twinA
    twinCall,     \* the last process call made on both: the two return values
    twinBlocks,   \* the number of process calls made on both
    vibratoCall   \* the last RetuneEngine::applyVibratoTracking call: the tracking
                  \* amount, the two frequencies and the adjusted target returned

maskVars == << maskCall >>

scaleVars == << settings, currentMask, mapCall >>

retuneVars == << retune, retuneCall, heldRatio, retuneBlocks >>

psolaVars == << psola, psolaCall, psolaOnset, psolaSilent, psolaSum, psolaFed, psolaBlocks >>

detVars == << detector, freshDet, detCall, detBlocks >>

engineVars == << engine, midiUnmatched, midiEvents, engineCall, engineBlocks >>

twinVars == << twinA, twinB, twinCall, twinBlocks >>

vibratoVars == << vibratoCall >>

vars == << maskCall, settings, currentMask, mapCall, retune, retuneCall, heldRatio,
           retuneBlocks, psola, psolaCall, psolaOnset, psolaSilent, psolaSum, psolaFed,
           psolaBlocks,
           detector, freshDet, detCall, detBlocks, engine, midiUnmatched, midiEvents,
           engineCall, engineBlocks, twinA, twinB, twinCall, twinBlocks, vibratoCall >>

(***************************************************************************)
(* Inputs                                                                   *)
(***************************************************************************)
\* custom masks: empty, only bits above bit 11, one note, a few notes with
\* high bits, all 16 bits
CustomMasks == { 0, 61440, 1, 2 ^ 15 + 2 ^ 11 + 2 ^ 7 + 2 ^ 2, 65535 }

\* every scale type and root, transpose and detune left at 0
AllScaleInputs ==
    [type : ScaleTypeSet \ {"Custom"}, root : 0..11, customMask : {0, FullMask},
     transpose : {0}, detune : {0}]
    \cup
    [type : {"Custom"}, root : 0..11, customMask : CustomMasks,
     transpose : {0}, detune : {0}]

\* (transpose in semitones, detune in cents)
TransposeDetuneInputs ==
    { << 0, 0 >>, << 0, 40 >>, << 0, -50 >>, << 1, 0 >>, << -13, -40 >> }

RootInputs == { 0, 7 }

\* the settings the map calls are made under
ScaleSettingsInputs ==
    { [type |-> t, root |-> r, customMask |-> FullMask, transpose |-> td[1],
       detune |-> td[2]] :
         t \in ScaleTypeSet \ {"Custom"}, r \in RootInputs, td \in TransposeDetuneInputs }
    \cup
    { [type |-> "Custom", root |-> r, customMask |-> c, transpose |-> td[1],
       detune |-> td[2]] :
         r \in RootInputs, c \in CustomMasks, td \in TransposeDetuneInputs }

\* detected frequencies: none, negative, and the notes 60, 60.5, 61.3, -0.5
FrequencyInputs == { ZeroHz, NegHz, Hz(-9000), Hz(-8500), Hz(-7700), Hz(-69500) }

\* MIDI override notes; -1 is "no override"
OverrideInputs == { -1, 0, 61 }

(***************************************************************************)
(* Initial state: the components as constructed                             *)
(***************************************************************************)
MaskCallOf(type, root, customMask) ==
    [type |-> type, root |-> root, customMask |-> customMask,
     engineMask |-> maskForType(type, root, customMask),
     mapperMask |-> getMaskForScale(type, root),
     activeMask |-> ActiveMask([type |-> type, root |-> root,
                                customMask |-> customMask])]

NoMapCall ==
    [kind |-> "none", frequency |-> ZeroHz, override |-> -1,
     result |-> EmptyMapResult, firstNote |-> 0]

InitMask == maskCall = MaskCallOf("Chromatic", 0, FullMask)

\* ScaleMapper::ScaleMapper
InitScale ==
    /\ settings = DefaultScaleSettings
    /\ currentMask = getMaskForScale(DefaultScaleSettings.type, DefaultScaleSettings.root)
    /\ mapCall = NoMapCall

\* the sample rate RetuneEngine::prepare is called with
RetuneSampleRate == 1000

\* the RetuneEngine makes at most this many process calls
MaxRetuneBlocks == 3

NoRetuneCall ==
    [kind |-> "none", ret |-> Unity, st |-> DefaultRetuneSettings,
     previousTarget |-> ZeroHz, target |-> ZeroHz, stepsToTarget |-> 0]

\* RetuneEngine::RetuneEngine and prepare
InitRetune ==
    /\ retune = retunePrepare(RetuneSampleRate)
    /\ retuneCall = NoRetuneCall
    /\ heldRatio = Unity
    /\ retuneBlocks = 0

\* the arguments PsolaShifter::prepare is called with
PsolaSampleRate == 1000

PsolaMaxBlockSize == 4

\* the PsolaShifter makes at most this many process calls
MaxPsolaBlocks == 3

NoPsolaCall ==
    [kind |-> "none", hasInput |-> FALSE, input |-> << >>, output |-> << >>,
     grains |-> << >>, grainsBefore |-> 0]

\* PsolaShifter::PsolaShifter and prepare
InitPsola ==
    /\ psola = psolaPrepare(PsolaSampleRate, PsolaMaxBlockSize)
    /\ psolaCall = NoPsolaCall
    /\ psolaOnset = 0
    /\ psolaSilent = TRUE
    /\ psolaSum = 0
    /\ psolaFed = TRUE
    /\ psolaBlocks = 0

\* the sample rate PitchDetector::prepare is called with
DetectorSampleRate == 2000

\* the PitchDetector makes at most this many process calls
MaxDetBlocks == 3

NoDetCall ==
    [kind |-> "none", result |-> EmptyResult, freshResult |-> EmptyResult,
     previous |-> EmptyResult, coarse |-> NotRun, fine |-> NotRun,
     minFreqHz |-> 0, maxFreqHz |-> 0, lastPeriod |-> 0, stableFrameCount |-> 0]

\* PitchDetector::PitchDetector and prepare
InitDetector ==
    /\ detector = detectorPrepare(DetectorSampleRate)
    /\ freshDet = detectorPrepare(DetectorSampleRate)
    /\ detCall = NoDetCall
    /\ detBlocks = 0

\* the sample rate PitchCorrectionEngine::prepare is called with
EngineSampleRate == 500

\* the PitchCorrectionEngine makes at most this many process calls
MaxEngineBlocks == 2

\* at most this many MIDI messages are pushed
MaxMidiEvents == 4

NoEngineCall ==
    [kind |-> "none", frequency |-> 0, confidence |-> 0, numSamples |-> 0,
     stable |-> 0, usingMidi |-> FALSE, detected |-> 0, target |-> 0,
     ratio |-> One, ratioValues |-> << >>, lastTargetBefore |-> 0,
     stableBefore |-> 0, counterBefore |-> 0, detectionTarget |-> 0,
     counter |-> 0, sampleRate |-> 0]

\* PitchCorrectionEngine::PitchCorrectionEngine and prepare
InitEngine ==
    /\ engine = enginePrepare(EngineSampleRate)
    /\ midiUnmatched = << >>
    /\ midiEvents = 0
    /\ engineCall = NoEngineCall
    /\ engineBlocks = 0

\* the two RetuneEngines make at most this many process calls each
MaxTwinBlocks == 2

NoTwinCall == [kind |-> "none", retA |-> Unity, retB |-> Unity]

\* two RetuneEngines constructed and prepared alike
InitTwin ==
    /\ twinA = retunePrepare(RetuneSampleRate)
    /\ twinB = retunePrepare(RetuneSampleRate)
    /\ twinCall = NoTwinCall
    /\ twinBlocks = 0

NoVibratoCall ==
    [kind |-> "none", vibratoTracking |-> 0, detected |-> ZeroHz, target |-> ZeroHz,
     adjusted |-> ZeroHz]

\* no applyVibratoTracking call made yet
InitVibrato == vibratoCall = NoVibratoCall

Init ==
    /\ InitMask /\ InitScale /\ InitRetune /\ InitPsola /\ InitDetector /\ InitEngine
    /\ InitTwin /\ InitVibrato

(***************************************************************************)
(* The mask helpers, called with any type, root and custom mask             *)
(***************************************************************************)
CallMaskHelpers ==
    /\ \E type \in ScaleTypeSet, root \in 0..11, customMask \in CustomMasks :
          maskCall' = MaskCallOf(type, root, customMask)
    /\ UNCHANGED << vibratoVars, engineVars, twinVars, scaleVars, retuneVars, psolaVars, detVars >>

NextMask == CallMaskHelpers

SpecMask == Init /\ [][NextMask]_vars

(***************************************************************************)
(* ScaleMapper's operations                                                 *)
(***************************************************************************)
\* ScaleMapper::setSettings with a value of inputs.  The result of an
\* earlier map call is dropped: it was computed under the old settings.
SetSettingsFrom(inputs) ==
    /\ \E newSettings \in inputs :
          /\ settings' = newSettings
          /\ currentMask' = ActiveMask(newSettings)
    /\ mapCall' = NoMapCall
    /\ UNCHANGED << vibratoVars, engineVars, twinVars, maskVars, retuneVars, psolaVars, detVars >>

SetSettings == SetSettingsFrom(ScaleSettingsInputs)

SetAnyScale == SetSettingsFrom(AllScaleInputs)

NextSettings == SetAnyScale

SpecSettings == Init /\ [][NextSettings]_vars

\* r = map (detectedFrequency, midiOverride)
Map ==
    /\ \E detectedFrequency \in FrequencyInputs, midiOverride \in OverrideInputs :
          mapCall' = [kind |-> "map", frequency |-> detectedFrequency,
                      override |-> midiOverride,
                      result |-> map(settings, currentMask, detectedFrequency,
                                     midiOverride),
                      firstNote |-> 0]
    /\ UNCHANGED << vibratoVars, engineVars, twinVars, maskVars, settings, currentMask, retuneVars, psolaVars, detVars >>

\* map (r.targetFrequency) on the result r of a map call by frequency
Remap ==
    /\ mapCall.kind = "map"
    /\ mapCall.override < 0
    /\ mapCall.frequency.sgn > 0
    /\ mapCall' = [kind |-> "remap", frequency |-> mapCall.result.targetFrequency,
                   override |-> -1,
                   result |-> map(settings, currentMask,
                                  mapCall.result.targetFrequency, -1),
                   firstNote |-> mapCall.result.targetNoteNumber]
    /\ UNCHANGED << vibratoVars, engineVars, twinVars, maskVars, settings, currentMask, retuneVars, psolaVars, detVars >>

NextScale == SetSettings \/ Map \/ Remap

SpecScale == Init /\ [][NextScale]_vars

(***************************************************************************)
(* RetuneEngine's operations                                                *)
(***************************************************************************)
RetuneSettingsInputs ==
    { DefaultRetuneSettings,
      [retuneSpeedMs |-> 0, vibratoTracking |-> 0, humanize |-> 0, noteTransition |-> 0],
      [retuneSpeedMs |-> 4, vibratoTracking |-> 1000, humanize |-> 1000,
       noteTransition |-> 0],
      [retuneSpeedMs |-> 4, vibratoTracking |-> 500, humanize |-> 5,
       noteTransition |-> 1000] }

\* detected frequencies: none, negative, A4 + 30 cents, A2
DetectedInputs == { ZeroHz, NegHz, Hz(300), Hz(-24000) }

\* target frequencies: none, A4, B4, A6, and 6.9 Hz (note -3)
TargetInputs == { ZeroHz, Hz(0), Hz(2000), Hz(24000), Hz(-72000) }

\* block lengths
NumSamplesInputs == { 2, 64 }

\* (random.nextFloat() - 0.5f) * 0.002f semitones, to the nearest unit
NoiseInputs == { -1, 0, 1 }

\* RetuneEngine::setSettings
RetuneSetSettings ==
    /\ \E newSettings \in RetuneSettingsInputs :
          retune' = retuneSetSettings(retune, newSettings)
    /\ UNCHANGED << vibratoVars, engineVars, twinVars, maskVars, scaleVars, psolaVars, detVars, retuneCall, heldRatio,
                    retuneBlocks >>

\* RetuneEngine::reset
RetuneReset ==
    /\ retune' = retuneReset(retune)
    /\ retuneCall' = NoRetuneCall
    /\ heldRatio' = Unity
    /\ UNCHANGED << vibratoVars, engineVars, twinVars, maskVars, scaleVars, psolaVars, detVars, retuneBlocks >>

\* RetuneEngine::process
RetuneProcess ==
    /\ retuneBlocks < MaxRetuneBlocks
    /\ \E detectedFrequency \in DetectedInputs, targetFrequency \in TargetInputs,
          numSamples \in NumSamplesInputs :
          LET valid == detectedFrequency.sgn > 0 /\ targetFrequency.sgn > 0
          IN  \E noise \in IF valid /\ retune.settings.humanize > 10
                           THEN NoiseInputs ELSE {0} :
                 LET after == process(retune, detectedFrequency, targetFrequency,
                                      numSamples, noise)
                 IN  /\ retune' = after
                     /\ retuneCall' = [kind |-> IF valid THEN "valid" ELSE "invalid",
                                       ret |-> after.lastRatio,
                                       st |-> retune.settings,
                                       previousTarget |-> retune.lastTargetFrequency,
                                       target |-> targetFrequency,
                                       stepsToTarget |-> after.ratioSmoother.stepsToTarget]
                     /\ heldRatio' = IF valid THEN after.lastRatio ELSE heldRatio
    /\ retuneBlocks' = retuneBlocks + 1
    /\ UNCHANGED << vibratoVars, engineVars, twinVars, maskVars, scaleVars, psolaVars, detVars >>

NextRetune == RetuneSetSettings \/ RetuneReset \/ RetuneProcess

SpecRetune == Init /\ [][NextRetune]_vars

(***************************************************************************)
(* PsolaShifter's operations                                                *)
(***************************************************************************)
\* input blocks: silence, a block with a peak, a short block
BlockInputs == { << 0, 0, 0, 0 >>, << 1000, -500, 250, 0 >>, << 300, -800 >> }

\* the input pointer and block: the blocks, and a null input of two samples
PsolaInputs ==
    { [hasInput |-> TRUE, samples |-> b] : b \in BlockInputs }
    \cup { [hasInput |-> FALSE, samples |-> << 0, 0 >>] }

\* << detectedPeriod, confidence >>: no period, low confidence, 2.5 samples,
\* 30 samples at the confidence floor
PeriodInputs == { << 0, 900 >>, << 500, 199 >>, << 250, 900 >>, << 3000, 200 >> }

\* pitch ratios: 0.7, 1.0, 3.0
RatioInputs == { 700, 1000, 3000 }

\* every sample of the block is zero
IsSilence(block) == \A i \in 1..Len(block) : block[i] = 0

\* PsolaShifter::reset
PsolaReset ==
    /\ psola' = psolaReset(psola)
    /\ psolaCall' = NoPsolaCall
    /\ psolaOnset' = 0
    /\ psolaSilent' = TRUE
    /\ psolaSum' = 0
    /\ psolaFed' = TRUE
    /\ UNCHANGED << vibratoVars, engineVars, twinVars, maskVars, scaleVars, retuneVars, detVars, psolaBlocks >>

\* PsolaShifter::process
PsolaProcess ==
    /\ psolaBlocks < MaxPsolaBlocks
    /\ \E in \in PsolaInputs, pc \in PeriodInputs, pitchRatio \in RatioInputs :
          LET unvoiced == pc[1] <= 0 \/ pc[2] < 200
              after == psolaProcess(psola, in.hasInput, in.samples, Len(in.samples),
                                    pitchRatio, pc[1], pc[2])
          IN  /\ psola' = after.ps
              /\ psolaCall' = [kind |-> IF unvoiced THEN "unvoiced" ELSE "voiced",
                               hasInput |-> in.hasInput,
                               input |-> in.samples,
                               output |-> after.output,
                               grains |-> after.grains,
                               grainsBefore |-> Len(psola.activeGrains)]
              /\ psolaOnset' = IF unvoiced THEN after.ps.totalOutputSamples
                               ELSE psolaOnset
              /\ psolaSilent' = (psolaSilent /\ (in.hasInput => IsSilence(in.samples)))
              /\ psolaSum' = psolaSum + Len(in.samples)
              /\ psolaFed' = (psolaFed /\ in.hasInput)
    /\ psolaBlocks' = psolaBlocks + 1
    /\ UNCHANGED << vibratoVars, engineVars, twinVars, maskVars, scaleVars, retuneVars, detVars >>

\* a block of 90 samples, longer than maxBlockSize
LongBlock == [k \in 1..90 |-> 100 * (k % 7) - 300]

\* PsolaShifter::process with the long block and no period detected
PsolaProcessLong ==
    /\ psolaBlocks < MaxPsolaBlocks
    /\ \E after \in { psolaProcess(psola, TRUE, LongBlock, Len(LongBlock), One, 0, 0) } :
          /\ psola' = after.ps
          /\ psolaCall' = [kind |-> "unvoiced", hasInput |-> TRUE, input |-> LongBlock,
                           output |-> after.output, grains |-> after.grains,
                           grainsBefore |-> Len(psola.activeGrains)]
          /\ psolaOnset' = after.ps.totalOutputSamples
    /\ psolaSilent' = FALSE
    /\ psolaSum' = psolaSum + Len(LongBlock)
    /\ psolaFed' = psolaFed
    /\ psolaBlocks' = psolaBlocks + 1
    /\ UNCHANGED << vibratoVars, engineVars, twinVars, maskVars, scaleVars, retuneVars, detVars >>

NextPsola == PsolaReset \/ PsolaProcess \/ PsolaProcessLong

SpecPsola == Init /\ [][NextPsola]_vars

(***************************************************************************)
(* PitchDetector's operations                                               *)
(***************************************************************************)
\* setFrequencyRange arguments, in Hz: below, inside and above [20, 2000]
RangeInputs == { 5, 10, 20, 80, 500, 2000, 2500, 3000 }

\* PitchDetector::setFrequencyRange with any arguments
BandSetFrequencyRange ==
    /\ \E minHz \in RangeInputs, maxHz \in RangeInputs :
          detector' = setFrequencyRange(detector, minHz * HzUnit, maxHz * HzUnit)
    /\ UNCHANGED << vibratoVars, engineVars, twinVars, maskVars, scaleVars, retuneVars, psolaVars, freshDet, detCall, detBlocks >>

\* PitchDetector::setInputType
DetSetInputType ==
    /\ \E type \in InputTypes : detector' = setInputType(detector, type)
    /\ UNCHANGED << vibratoVars, engineVars, twinVars, maskVars, scaleVars, retuneVars, psolaVars, freshDet, detCall, detBlocks >>

NextBand == BandSetFrequencyRange \/ DetSetInputType

SpecBand == Init /\ [][NextBand]_vars

\* one period of a 16-sample and of a 20-sample wave
Wave16 == << 0, 11, 21, 28, 30, 28, 21, 11, 0, -11, -21, -28, -30, -28, -21, -11 >>

Wave20 ==
    << 0, 9, 18, 24, 29, 30, 29, 24, 18, 9, 0, -9, -18, -24, -29, -30, -29, -24, -18, -9 >>

\* n samples of the wave
Repeat(wave, n) == [k \in 1..n |-> wave[((k - 1) % Len(wave)) + 1]]

\* a frame of a square wave of period 8 on bursts of period 32 that are
\* silent during the last 16 samples
Square8(k) == IF k % 8 < 4 THEN 10 ELSE -10

Burst32(k) ==
    IF (k - 84) % 32 < 16 THEN 0 ELSE IF (k - 84) % 32 < 24 THEN 60 ELSE -60

SquareOnBursts == [k \in 1..100 |-> Square8(k - 1) + Burst32(k - 1)]

\* the 16-sample wave with its last period disturbed
NoisyWave16 ==
    [k \in 1..56 |-> Wave16[((k - 1) % 16) + 1]
                         + (IF k <= 40 THEN 0 ELSE IF k % 2 = 0 THEN 12 ELSE -12)]

\* input blocks: silence, a constant, the two waves, the square wave on
\* bursts and the disturbed wave
DetectorInputs ==
    { Zeros(50), [k \in 1..100 |-> 10], Repeat(Wave16, 56), Repeat(Wave20, 60),
      SquareOnBursts, NoisyWave16 }

\* << minHz, maxHz >> the detector is narrowed to
NarrowInputs == { << 80, 120 >>, << 60, 300 >> }

\* PitchDetector::setFrequencyRange
DetSetFrequencyRange ==
    /\ \E r \in NarrowInputs :
          /\ detector' = setFrequencyRange(detector, r[1] * HzUnit, r[2] * HzUnit)
          /\ freshDet' = setFrequencyRange(freshDet, r[1] * HzUnit, r[2] * HzUnit)
    /\ UNCHANGED << vibratoVars, engineVars, twinVars, maskVars, scaleVars, retuneVars, psolaVars, detCall, detBlocks >>

\* a detector newly constructed and prepared, then given the settings of d
FreshAs(d) ==
    [detectorPrepare(d.sampleRate) EXCEPT !.inputType = d.inputType,
                                          !.minFreqHz = d.minFreqHz,
                                          !.maxFreqHz = d.maxFreqHz,
                                          !.epsilon = d.epsilon]

\* PitchDetector::reset; freshDet becomes a new detector with the same
\* settings, which is given the same calls from here on
DetReset ==
    /\ detector' = detectorReset(detector)
    /\ freshDet' = FreshAs(detector)
    /\ detCall' = NoDetCall
    /\ UNCHANGED << vibratoVars, engineVars, twinVars, maskVars, scaleVars, retuneVars, psolaVars, detBlocks >>

\* PitchDetector::process
DetProcess ==
    /\ detBlocks < MaxDetBlocks
    /\ \E input \in DetectorInputs :
          \E after \in { detectorProcess(detector, input) },
             twin \in { detectorProcess(freshDet, input) } :
              /\ detector' = after.d
              /\ freshDet' = twin.d
              /\ detCall' = [kind |-> "process", result |-> after.result,
                             freshResult |-> twin.result,
                             previous |-> detCall.result,
                             coarse |-> after.coarse, fine |-> after.fine,
                             minFreqHz |-> detector.minFreqHz,
                             maxFreqHz |-> detector.maxFreqHz,
                             lastPeriod |-> detector.lastPeriod,
                             stableFrameCount |-> detector.stableFrameCount]
    /\ detBlocks' = detBlocks + 1
    /\ UNCHANGED << vibratoVars, engineVars, twinVars, maskVars, scaleVars, retuneVars, psolaVars >>

NextDetector == DetSetFrequencyRange \/ DetReset \/ DetProcess

SpecDetector == Init /\ [][NextDetector]_vars

(***************************************************************************)
(* PitchCorrectionEngine's operations                                       *)
(***************************************************************************)
MidiNotes == { 60, 64, 67 }

MidiMessages == [kind : { "on", "off" }, note : MidiNotes]

\* MIDI buffers of one or two messages
MidiBuffers ==
    { << m >> : m \in MidiMessages } \cup { << m1, m2 >> : m1, m2 \in MidiMessages }

RECURSIVE UnmatchedFrom(_, _, _)
\* the unmatched note-ons after the messages of the buffer from k on: a
\* note-on is appended, a note-off matches every earlier note-on of its number
UnmatchedFrom(unmatched, midiMessages, k) ==
    IF k > Len(midiMessages) THEN unmatched
    ELSE LET m == midiMessages[k]
         IN  UnmatchedFrom(IF m.kind = "on" THEN Append(unmatched, m.note)
                           ELSE SelectSeq(unmatched, LAMBDA n : n # m.note),
                           midiMessages, k + 1)

\* PitchCorrectionEngine::pushMidi
EnginePushMidi ==
    /\ \E midiMessages \in MidiBuffers :
          /\ midiEvents + Len(midiMessages) <= MaxMidiEvents
          /\ engine' = pushMidi(engine, midiMessages)
          /\ midiUnmatched' = UnmatchedFrom(midiUnmatched, midiMessages, 1)
          /\ midiEvents' = midiEvents + Len(midiMessages)
    /\ UNCHANGED << vibratoVars, maskVars, scaleVars, retuneVars, psolaVars, detVars, twinVars,
                    engineCall, engineBlocks >>

\* PitchCorrectionEngine::reset
EngineReset ==
    /\ engine' = engineReset(engine)
    /\ midiUnmatched' = << >>
    /\ engineCall' = NoEngineCall
    /\ UNCHANGED << vibratoVars, maskVars, scaleVars, retuneVars, psolaVars, detVars, twinVars,
                    midiEvents, engineBlocks >>

NextMidi == EnginePushMidi \/ EngineReset

SpecMidi == Init /\ [][NextMidi]_vars

\* parameter sets: the defaults, MIDI control, a C major scale without forced
\* correction and a 20 ms glide
EngineParameterInputs ==
    { DefaultParameters,
      [DefaultParameters EXCEPT !.midiEnabled = TRUE],
      [DefaultParameters EXCEPT !.forceCorrection = FALSE, !.speed = 20000,
                                !.mask = 2741] }

\* what estimatePitchFromAutocorrelation returns for a block: nothing found
\* (frequency 0, confidence 0), or a frequency with a confidence of at least
\* 1 - periodicityEps (here 452 Hz)
EstimateInputs == { << 0, 0 >>, << 452 * CentiHz, 900 >> }

\* block lengths
EngineNumSamples == { 4, 64 }

\* at most this many messages for the held note are pushed
MaxHeldNoteEvents == 1

\* one held note pushed before or between blocks
HeldNoteBuffers == { << [kind |-> "on", note |-> 60] >>, << [kind |-> "off", note |-> 60] >> }

\* PitchCorrectionEngine::setParameters
EngineSetParameters ==
    /\ \E newParams \in EngineParameterInputs :
          engine' = setParameters(engine, newParams)
    /\ UNCHANGED << vibratoVars, maskVars, scaleVars, retuneVars, psolaVars, detVars, twinVars,
                    midiUnmatched, midiEvents, engineCall, engineBlocks >>

\* PitchCorrectionEngine::pushMidi with a single message for note 60
EngineHoldNote ==
    /\ \E midiMessages \in HeldNoteBuffers :
          /\ midiEvents + Len(midiMessages) <= MaxHeldNoteEvents
          /\ engine' = pushMidi(engine, midiMessages)
          /\ midiUnmatched' = UnmatchedFrom(midiUnmatched, midiMessages, 1)
          /\ midiEvents' = midiEvents + Len(midiMessages)
    /\ UNCHANGED << vibratoVars, maskVars, scaleVars, retuneVars, psolaVars, detVars, twinVars,
                    engineCall, engineBlocks >>

\* PitchCorrectionEngine::process, as one of at most maxBlocks calls
EngineProcessUpTo(maxBlocks) ==
    /\ engineBlocks < maxBlocks
    /\ \E estimate \in EstimateInputs, numSamples \in EngineNumSamples :
          \E analysed \in { analyseBlock(engine, estimate[1], estimate[2], numSamples) },
             after \in { engineProcess(engine, estimate[1], estimate[2], numSamples) } :
              /\ engine' = after.e
              /\ engineCall' =
                     [kind |-> "process", frequency |-> estimate[1],
                      confidence |-> estimate[2], numSamples |-> numSamples,
                      stable |-> analysed.lastStableDetectedFrequency,
                      usingMidi |-> engine.params.midiEnabled
                                    /\ ~isnan(engine.heldMidiNote),
                      detected |-> after.detected, target |-> after.target,
                      ratio |-> after.ratio, ratioValues |-> after.ratioValues,
                      lastTargetBefore |-> engine.lastTargetFrequency,
                      stableBefore |-> engine.lastStableDetectedFrequency,
                      counterBefore |-> engine.lowConfidenceSampleCounter,
                      detectionTarget |-> analysed.detectionSmoother.target,
                      counter |-> analysed.lowConfidenceSampleCounter,
                      sampleRate |-> engine.currentSampleRate]
    /\ engineBlocks' = engineBlocks + 1
    /\ UNCHANGED << vibratoVars, maskVars, scaleVars, retuneVars, psolaVars, detVars, twinVars,
                    midiUnmatched, midiEvents >>

\* PitchCorrectionEngine::process
EngineProcess == EngineProcessUpTo(MaxEngineBlocks)

NextEngine == EngineSetParameters \/ EngineHoldNote \/ EngineReset \/ EngineProcess

SpecEngine == Init /\ [][NextEngine]_vars

\* the low-confidence hold is followed over at most this many process calls
MaxHoldBlocks == 3

\* the sample rates the host prepares the engine with
EngineSampleRates == { EngineSampleRate, EngineSampleRate \div 2 }

\* PitchCorrectionEngine::prepare on the engine in use (prepareToPlay calls
\* it whenever the host changes the sample rate or block size)
EnginePrepare ==
    /\ \E sampleRate \in EngineSampleRates :
          engine' = enginePrepareAgain(engine, sampleRate)
    /\ UNCHANGED << vibratoVars, maskVars, scaleVars, retuneVars, psolaVars, detVars, twinVars,
                    midiUnmatched, midiEvents, engineCall, engineBlocks >>

\* PitchCorrectionEngine::process
EngineProcessHold == EngineProcessUpTo(MaxHoldBlocks)

NextHold == EnginePrepare \/ EngineReset \/ EngineProcessHold

SpecHold == Init /\ [][NextHold]_vars

(***************************************************************************)
(* Two RetuneEngines given the same calls                                   *)
(***************************************************************************)
\* RetuneEngine::setSettings on both
TwinSetSettings ==
    /\ \E newSettings \in RetuneSettingsInputs :
          /\ twinA' = retuneSetSettings(twinA, newSettings)
          /\ twinB' = retuneSetSettings(twinB, newSettings)
    /\ UNCHANGED << vibratoVars, maskVars, scaleVars, retuneVars, psolaVars, detVars, engineVars,
                    twinCall, twinBlocks >>

\* RetuneEngine::reset on both
TwinReset ==
    /\ twinA' = retuneReset(twinA)
    /\ twinB' = retuneReset(twinB)
    /\ twinCall' = NoTwinCall
    /\ UNCHANGED << vibratoVars, maskVars, scaleVars, retuneVars, psolaVars, detVars, engineVars,
                    twinBlocks >>

\* RetuneEngine::process on both with the same arguments; each engine draws
\* from its own juce::Random, seeded at construction by setSeedRandomly
TwinProcess ==
    /\ twinBlocks < MaxTwinBlocks
    /\ \E detectedFrequency \in DetectedInputs, targetFrequency \in TargetInputs,
          numSamples \in NumSamplesInputs :
          LET valid == detectedFrequency.sgn > 0 /\ targetFrequency.sgn > 0
              draws == IF valid /\ twinA.settings.humanize > 10 THEN NoiseInputs ELSE {0}
          IN  \E noiseA \in draws, noiseB \in draws :
                 LET afterA == process(twinA, detectedFrequency, targetFrequency,
                                       numSamples, noiseA)
                     afterB == process(twinB, detectedFrequency, targetFrequency,
                                       numSamples, noiseB)
                 IN  /\ twinA' = afterA
                     /\ twinB' = afterB
                     /\ twinCall' = [kind |-> IF valid THEN "valid" ELSE "invalid",
                                     retA |-> afterA.lastRatio,
                                     retB |-> afterB.lastRatio]
    /\ twinBlocks' = twinBlocks + 1
    /\ UNCHANGED << vibratoVars, maskVars, scaleVars, retuneVars, psolaVars, detVars, engineVars >>

NextTwin == TwinSetSettings \/ TwinReset \/ TwinProcess

SpecTwin == Init /\ [][NextTwin]_vars

(***************************************************************************)
(* RetuneEngine::applyVibratoTracking, called as process calls it: with     *)
(* positive frequencies and any tracking amount in [0, 1]                   *)
(***************************************************************************)
\* tracking amounts, in thousandths: the ends, the two thresholds and their
\* neighbours, and amounts in between
TrackingInputs == { 0, 5, 10, 11, 250, 500, 989, 990, 995, 1000 }

\* detected frequencies: A4 + 30 cents, A2, A4 - 45 cents, A4 + 49.9 cents,
\* A4 - 2 cents
VibratoDetectedInputs == { Hz(300), Hz(-24000), Hz(-450), Hz(499), Hz(-20) }

\* the semitone nearest to a frequency
NearestSemitone(freq) == Hz(Round(retuneFrequencyToMidi(freq)) * Semi - 69 * Semi)

\* target frequencies for a detected one: its nearest semitone, A4, B4, A2
VibratoTargetInputs(detected) ==
    { NearestSemitone(detected), Hz(0), Hz(2000), Hz(-24000) }

ApplyVibratoTracking ==
    /\ \E t \in TrackingInputs, detected \in VibratoDetectedInputs :
          \E target \in VibratoTargetInputs(detected) :
              vibratoCall' =
                  [kind |-> "call", vibratoTracking |-> t, detected |-> detected,
                   target |-> target,
                   adjusted |-> applyVibratoTracking(
                                    [DefaultRetuneSettings EXCEPT !.vibratoTracking = t],
                                    detected, target)]
    /\ UNCHANGED << maskVars, scaleVars, retuneVars, psolaVars, detVars, engineVars,
                    twinVars >>

NextVibrato == ApplyVibratoTracking

SpecVibrato == Init /\ [][NextVibrato]_vars

(***************************************************************************)
(* Claims about the scale masks                                             *)
(***************************************************************************)
RECURSIVE BitsToMask(_, _)
\* the mask with exactly the bits of the set pcs below bit i
BitsToMask(pcs, i) ==
    IF i = 0 THEN 0
    ELSE BitsToMask(pcs, i - 1) + (IF (i - 1) \in pcs THEN 2 ^ (i - 1) ELSE 0)

\* OR of bit ((root + interval) mod 12) over a scale's intervals
IntervalMask(root, pattern) ==
    BitsToMask({ (root + pattern[k]) % 12 : k \in 1..Len(pattern) }, 12)

\* C1 as stated: for every scale type (Custom with any custom mask) and every
\* root, neither maskForType nor getMaskForScale returns the all-zero mask
C1_NeverZero == maskCall.engineMask # 0 /\ maskCall.mapperMask # 0

\* C1, amended: getMaskForScale is never zero, maskForType is never zero for
\* Chromatic and the 14 named scales, and for Custom it is zero exactly when
\* the custom mask has none of its low 12 bits set
C1_NeverZeroUnlessCustomEmpty ==
    /\ maskCall.mapperMask # 0
    /\ maskCall.type # "Custom" => maskCall.engineMask # 0
    /\ maskCall.type = "Custom" =>
          (maskCall.engineMask = 0 <=> maskCall.customMask % 4096 = 0)

C1_Witness ==
    /\ maskCall.type = "MajorPentatonic"
    /\ maskCall.root = 11
    /\ maskCall.engineMask # 0
    /\ maskCall.mapperMask # 0

\* what C7 says of either implementation for Chromatic and the named scales,
\* and of maskForType for Custom
C7_Conversion ==
    /\ maskCall.type = "Chromatic" =>
          maskCall.engineMask = 4095 /\ maskCall.mapperMask = 4095
    /\ maskCall.type \in NamedScaleTypes =>
          /\ maskCall.engineMask = IntervalMask(maskCall.root, EnginePattern(maskCall.type))
          /\ maskCall.mapperMask = maskCall.engineMask
          /\ BitSet(maskCall.engineMask, maskCall.root)
    /\ maskCall.type = "Custom" => maskCall.engineMask = maskCall.customMask % 4096

\* C7 as stated: the conversion, and maskForType agrees with the mask the
\* ScaleMapper makes active for the same type, root and custom mask
C7_ConversionAndAgreement ==
    C7_Conversion /\ maskCall.activeMask = maskCall.engineMask

\* C7, amended: the conversion, and the two agree except for Custom with a
\* custom mask empty in its low 12 bits, where maskForType returns 0 and the
\* ScaleMapper makes 0xFFF active
C7_ConversionAndAgreementUnlessEmpty ==
    /\ C7_Conversion
    /\ IF maskCall.type = "Custom" /\ maskCall.customMask % 4096 = 0
       THEN maskCall.engineMask = 0 /\ maskCall.activeMask = 4095
       ELSE maskCall.activeMask = maskCall.engineMask

C7_Witness ==
    /\ maskCall.type = "Blues"
    /\ maskCall.root = 9
    /\ maskCall.engineMask = IntervalMask(9, << 0, 3, 5, 6, 7, 10 >>)
    /\ maskCall.activeMask = maskCall.engineMask

\* C2: after construction and any setSettings calls the active mask is a
\* non-zero subset of 0xFFF, and it is 0xFFF when the requested mask is empty
C2_ActiveMaskValid ==
    /\ currentMask # 0
    /\ currentMask \in 1..4095
    /\ (settings.type = "Custom" /\ settings.customMask % 4096 = 0) =>
          currentMask = 4095

C2_Witness ==
    /\ settings.type = "Custom"
    /\ settings.customMask = 61440
    /\ currentMask = 4095

(***************************************************************************)
(* Claims about ScaleMapper::map                                            *)
(***************************************************************************)
\* the last call had a valid input: a positive frequency or an override
ValidMapCall ==
    /\ mapCall.kind # "none"
    /\ mapCall.frequency.sgn > 0 \/ mapCall.override >= 0

CallInput == TransposedInput(settings, mapCall.frequency, mapCall.override)

CallNote == mapCall.result.targetNoteNumber

\* the notes the snap may choose from
Candidates ==
    { c \in (Round(CallInput) - 12)..(Round(CallInput) + 12) :
         BitSet(currentMask, c % 12) }

\* the other candidates exactly as near to the input as the returned note
Tied ==
    { c \in Candidates \ {CallNote} :
         Abs(c * Semi - CallInput) = Abs(CallNote * Semi - CallInput) }

\* C3 as stated: for every settings value, mapping the target frequency of a
\* map result again returns the same target note
C3_Idempotent ==
    mapCall.kind = "remap" => CallNote = mapCall.firstNote

\* C3, amended: the same, for settings with transpose 0 and a detune of less
\* than 50 cents either way
C3_IdempotentUntransposed ==
    (mapCall.kind = "remap" /\ settings.transpose = 0 /\ Abs(settings.detune) < 50)
       => CallNote = mapCall.firstNote

C3_Witness ==
    /\ mapCall.kind = "remap"
    /\ settings.type = "Major"
    /\ settings.transpose = 0
    /\ settings.detune = 40
    /\ CallNote = mapCall.firstNote

\* C4: the returned note has an allowed pitch class, lies within 12 semitones
\* of the rounded transposed input, and no allowed note in that range is
\* strictly nearer to the transposed input
C4_NearestAllowed ==
    ValidMapCall =>
       /\ CallNote \in Candidates
       /\ \A c \in Candidates :
             Abs(c * Semi - CallInput) >= Abs(CallNote * Semi - CallInput)

C4_Witness ==
    /\ ValidMapCall
    /\ settings.type = "MajorPentatonic"
    /\ mapCall.frequency = Hz(-7700)
    /\ mapCall.override < 0
    /\ CallNote # Round(CallInput)

\* C5 as stated: of two equally near candidates the snap returns the one its
\* scan finds first, and that one has the smaller |delta| from the rounded
\* input
C5_FirstFoundSmallerDelta ==
    ValidMapCall =>
       \A c \in Tied :
          /\ CallNote < c
          /\ Abs(CallNote - Round(CallInput)) <= Abs(c - Round(CallInput))

\* C5, amended: of two equally near candidates the snap returns the one its
\* ascending scan finds first, the lower note
C5_FirstFoundLower ==
    ValidMapCall => \A c \in Tied : CallNote < c

C5_Witness ==
    /\ ValidMapCall
    /\ settings.type = "Major"
    /\ settings.root = 0
    /\ mapCall.override = 61
    /\ settings.transpose = 0
    /\ Tied = { 62 }
    /\ CallNote = 60

\* C6: two successive map calls with the same override note >= 0 under the
\* same settings return identical results whatever the detected frequencies
C6_OverrideIgnoresFrequency ==
    [][ ( /\ mapCall.kind = "map"
          /\ mapCall'.kind = "map"
          /\ mapCall.override >= 0
          /\ mapCall'.override = mapCall.override
          /\ settings' = settings )
        => mapCall'.result = mapCall.result ]_vars

C6_Witness ==
    /\ mapCall.kind = "map"
    /\ mapCall.override = 61
    /\ mapCall.frequency = NegHz
    /\ settings.type = "Dorian"
    /\ mapCall.result.targetFrequency.sgn > 0

(***************************************************************************)
(* Claims about RetuneEngine                                                *)
(***************************************************************************)
\* C8 as stated: every value process returns lies in [0.5, 2.0], whatever the
\* settings (humanize included) and the frequencies
C8_RatioInRange ==
    retuneCall.kind # "none" => retuneCall.ret \in (-MaxRatio)..MaxRatio

\* C9: a process call with an invalid detected or target frequency returns the
\* ratio returned by the most recent valid call (unity if none since
\* prepare/reset) and leaves the last detected and target frequency and the
\* last target note unchanged
C9_HoldLastRatio ==
    [][ (retuneBlocks' = retuneBlocks + 1 /\ retuneCall'.kind = "invalid")
        => /\ retuneCall'.ret = heldRatio
           /\ retune'.lastRatio = retune.lastRatio
           /\ retune'.lastDetectedFrequency = retune.lastDetectedFrequency
           /\ retune'.lastTargetFrequency = retune.lastTargetFrequency
           /\ retune'.lastTargetNote = retune.lastTargetNote ]_vars

\* two invalid calls in a row after a valid one that moved the ratio; the
\* smoother has run on while the returned ratio is held
C9_Witness ==
    /\ retuneBlocks = 3
    /\ retuneCall.kind = "invalid"
    /\ retuneCall.ret = heldRatio
    /\ heldRatio # Unity
    /\ retune.ratioSmoother.currentValue # heldRatio
    /\ retune.lastTargetNote = 71

(***************************************************************************)
(* Claims about PsolaShifter                                                *)
(***************************************************************************)
\* C10: a process call with detectedPeriod <= 0 or confidence < 0.2 and a
\* non-null input returns the input as its output, whatever the pitch ratio
\* and the grains active before, and leaves the grain queue empty, the grain
\* phase and the smoothed period 0 and the input read position unset; so
\* every grain a voiced block sums over, and every grain in the queue, was
\* spawned at or after the start of the voiced onset block.
C10_UnvoicedPassThrough ==
    /\ (psolaCall.kind = "unvoiced" /\ psolaCall.hasInput)
          => /\ psolaCall.output = psolaCall.input
             /\ psola.activeGrains = << >>
             /\ psola.grainPhase = 0
             /\ psola.lastPeriod = 0
             /\ psola.inputReadPosition = -1
    /\ \A k \in 1..Len(psolaCall.grains) :
          psolaCall.grains[k].outputPosition >= psolaOnset
    /\ \A k \in 1..Len(psola.activeGrains) :
          psola.activeGrains[k].outputPosition >= psolaOnset

\* an unvoiced call with a non-silent input made while grains were active
C10_Witness ==
    /\ psolaCall.kind = "unvoiced"
    /\ psolaCall.hasInput
    /\ psolaCall.grainsBefore > 0
    /\ psolaCall.output = << 1000, -500, 250, 0 >>
    /\ psola.activeGrains = << >>
    /\ psolaOnset > 4

\* C11: while every input sample fed since prepare/reset was zero, every
\* output sample of a process call is exactly zero (a finite number),
\* whatever the period, confidence and pitch ratio arguments.
C11_SilenceInSilenceOut ==
    psolaSilent => \A i \in 1..Len(psolaCall.output) : psolaCall.output[i] = 0

\* a third, voiced block of a silent stream whose overlap-add summed over
\* grains with a non-zero window
C11_Witness ==
    /\ psolaSilent
    /\ psolaBlocks = 3
    /\ psolaCall.kind = "voiced"
    /\ psolaCall.hasInput
    /\ psolaCall.grainsBefore > 0
    /\ Len(psolaCall.grains) > 1
    /\ Len(psolaCall.output) = 4
    /\ OverlapSum(psolaCall.grains, 1, psola.totalOutputSamples - 1, "window") > 0

\* the grains the last process call spawned: the tail of the queue its
\* overlap-add summed over
SpawnedGrains == SubSeq(psolaCall.grains, psolaCall.grainsBefore + 1, Len(psolaCall.grains))

\* the first input-stream position a grain was read from
GrainStart(grain) == grain.centerPosition - Len(grain.samples) \div 2

\* C12: every grain a process call spawns reads only input-stream positions
\* p that have been written and are still in the circular buffer:
\* max(0, totalInputSamples - bufferSize) <= p < totalInputSamples for each
\* of its samples.
C12_GrainsReadWritten ==
    \A k \in 1..Len(SpawnedGrains) :
       /\ jmax(0, psola.totalInputSamples - Len(psola.inputBuffer))
             <= GrainStart(SpawnedGrains[k])
       /\ GrainStart(SpawnedGrains[k]) + Len(SpawnedGrains[k].samples) - 1
             < psola.totalInputSamples

\* the output position a grain's window ends at
GrainEnd(grain) == grain.outputPosition + Len(grain.samples) \div 2

MinFrequencyHz == 50

\* C14: getLatencySamples() is twice the period, in whole samples, of the
\* minimum frequency at the prepared sample rate, and no process call, with
\* any pitch ratio, period and confidence, and no reset changes it.
C14_LatencyFixed ==
    psola.latencySamples = 2 * (PsolaSampleRate \div MinFrequencyHz)

\* three process calls, the last voiced with the ratio clamped to 2.0 and
\* grains in the queue
C14_Witness ==
    /\ psolaBlocks = 3
    /\ psolaCall.kind = "voiced"
    /\ psolaCall.grainsBefore > 0
    /\ psola.activeGrains # << >>
    /\ psola.lastPeriod > 2 * PerSample
    /\ psola.latencySamples = 2 * psola.maxPeriodSamples

(***************************************************************************)
(* Claims about PitchDetector                                               *)
(***************************************************************************)
\* the last process call left the lock-in state as it found it
LockInUntouched ==
    /\ detector.lastPeriod = detCall.lastPeriod
    /\ detector.stableFrameCount = detCall.stableFrameCount

\* C15: neither search of a process call chooses a lag whose energy is below
\* the floor, and when every lag of the coarse search, or every lag of the
\* fine search, is skipped, the call returns the empty result and leaves the
\* last period and the stable-frame count as they were.
C15_DegenerateSkipped ==
    detCall.kind = "process"
      => /\ detCall.coarse.lag > 0
               => /\ detCall.coarse.lag \notin detCall.coarse.skipped
                  /\ ~ BelowFloor(detCall.coarse.E)
         /\ detCall.fine.lag > 0
               => /\ detCall.fine.lag \notin detCall.fine.skipped
                  /\ ~ BelowFloor(detCall.fine.E)
         /\ (detCall.coarse.lags # {} /\ detCall.coarse.skipped = detCall.coarse.lags)
               => (detCall.result = EmptyResult /\ LockInUntouched)
         /\ (detCall.fine.lags # {} /\ detCall.fine.skipped = detCall.fine.lags)
               => (detCall.result = EmptyResult /\ LockInUntouched)

\* a call on a history that is not silent (a constant, whose frame is zero
\* once its mean is removed) made after a detection: every coarse lag is
\* skipped and the lock-in state of the detection is kept
C15_Witness ==
    /\ detCall.kind = "process"
    /\ detCall.coarse.lags # {}
    /\ detCall.coarse.skipped = detCall.coarse.lags
    /\ detCall.result = EmptyResult
    /\ detector.lastPeriod > 0
    /\ \E k \in 1..Len(detector.inputBuffer) : detector.inputBuffer[k] # 0

\* C16: the result of a process call is the empty result, or its frequency
\* is within the band configured at the call, its period and frequency are
\* each sampleRate over the other (to the precision of the quotient), and
\* its confidence is within [0, 1].
C16_ResultInBand ==
    detCall.kind = "process"
      => \/ detCall.result = EmptyResult
         \/ /\ detCall.minFreqHz <= detCall.result.frequency
            /\ detCall.result.frequency <= detCall.maxFreqHz
            /\ detCall.result.period > 0
            /\ detCall.result.period * detCall.result.frequency
                  <= detector.sampleRate * HzUnit * PerSample
            /\ detCall.result.period * (detCall.result.frequency + 1)
                  > detector.sampleRate * HzUnit * PerSample
            /\ detCall.result.confidence \in 0..One

\* a voiced detection in the narrowed band [60, 300] Hz, of a period between
\* two whole lags
C16_Witness ==
    /\ detCall.kind = "process"
    /\ detCall.result.voiced
    /\ detCall.minFreqHz = 60 * HzUnit
    /\ detCall.result.frequency > 90 * HzUnit
    /\ detCall.result.period % PerSample # 0
    /\ detCall.result.confidence > 0

\* C17: after any setFrequencyRange and setInputType calls the stored band
\* satisfies 20 <= getMinFrequency() <= getMaxFrequency() <= 2000.
C17_BandClamped ==
    /\ 20 * HzUnit <= detector.minFreqHz
    /\ detector.minFreqHz <= detector.maxFreqHz
    /\ detector.maxFreqHz <= 2000 * HzUnit

(***************************************************************************)
(* Claims about the PitchCorrectionEngine                                   *)
(***************************************************************************)
\* C18: after any sequence of pushMidi and reset calls the held MIDI note is
\* the number of the most recent note-on since reset that no later note-off
\* of the same number followed, and none (NaN) when there is no such note-on;
\* in particular it is none after reset.
C18_HeldIsLastUnmatched ==
    engine.heldMidiNote =
        IF midiUnmatched = << >> THEN NaN
        ELSE midiUnmatched[Len(midiUnmatched)] * Semi

\* the last process call found no periodic signal: the estimator returned
\* frequency 0, no stable detection is held after the analysis and no MIDI
\* note overrides the target
NothingDetected ==
    /\ engineCall.kind = "process"
    /\ engineCall.frequency = 0
    /\ engineCall.stable = 0
    /\ ~engineCall.usingMidi

\* C19: a process call that finds no periodic signal (estimate 0, no held
\* stable detection, no MIDI override) applies the pitch ratio 1 to every
\* sample of the block and makes up no correction target: the ratio it
\* steers to is 1 and the target frequency it reports is the one it had.
C19_NothingDetectedPassThrough ==
    NothingDetected =>
        /\ \A i \in 1..Len(engineCall.ratioValues) : engineCall.ratioValues[i] = One
        /\ engineCall.ratio = One
        /\ engine.lastTargetFrequency = engineCall.lastTargetBefore

(***************************************************************************)
(* Claims about two RetuneEngines                                           *)
(***************************************************************************)
\* C20: two RetuneEngines prepared alike and given the same settings
\* (humanize above 0 included) and the same sequence of process arguments
\* return the same ratio from every process call.
C20_TwinsReturnTheSame == twinCall.retA = twinCall.retB

(***************************************************************************)
(* C21                                                                     *)
(***************************************************************************)
\* C21: a process call on a detector that was reset returns what the same
\* call returns on a detector newly constructed and prepared with the same
\* settings and given the same calls since the reset
C21_ResetAsFresh ==
    detCall.kind = "process" => detCall.result = detCall.freshResult

(***************************************************************************)
(* C22                                                                     *)
(***************************************************************************)
\* C22: a process call of the shifter sizes no storage: the grain queue its
\* overlap-add sums over holds no more grains than the queue held when the
\* call began, so no grain (with its samples and window vectors) was made
\* during the call
C22_NoStorageSizedInProcess ==
    psolaCall.kind # "none" => Len(psolaCall.grains) <= psolaCall.grainsBefore

(***************************************************************************)
(* C23                                                                     *)
(***************************************************************************)
\* the ramp length of the ratio smoother for a time constant in microseconds
RampSteps(micros) == (micros * RetuneSampleRate) \div 1000000

\* the rounded MIDI note of a target frequency
TargetNote(targetFreq) == Round(retuneFrequencyToMidi(targetFreq))

\* C23: a valid process call leaves the ratio smoother with the transition
\* time if the rounded note of its target differs from that of the valid call
\* before it, and with the retune-speed time otherwise and when there was no
\* valid call since prepare or reset
C23_TransitionIffNoteChanged ==
    retuneCall.kind = "valid" =>
        retuneCall.stepsToTarget =
            IF /\ retuneCall.previousTarget.sgn > 0
               /\ TargetNote(retuneCall.target) # TargetNote(retuneCall.previousTarget)
            THEN RampSteps(transitionTimeMicros(retuneCall.st))
            ELSE RampSteps(retuneTimeMicros(retuneCall.st))

(***************************************************************************)
(* C24                                                                     *)
(***************************************************************************)
\* the call counted a stable frame: it took the branch that raises
\* stableFrameCount and adds the boost to the confidence
CountedStable == detector.stableFrameCount = detCall.stableFrameCount + 1

\* C24: a process call that detects a pitch counts a stable frame only if the
\* process call just before it returned a period within 5% of its own; when
\* the call before it returned the empty result it adds no boost and leaves
\* the stable-frame count at zero
C24_BoostOnlyOnConsecutiveFrames ==
    (detCall.kind = "process" /\ detCall.result.period > 0) =>
        /\ CountedStable =>
               /\ detCall.previous.period > 0
               /\ detCall.result.period * 100 > 95 * detCall.previous.period
               /\ detCall.result.period * 100 < 105 * detCall.previous.period
        /\ detCall.previous.period <= 0 =>
               ~ CountedStable /\ detector.stableFrameCount = 0

(***************************************************************************)
(* C25                                                                     *)
(***************************************************************************)
\* C25: the result of a process call is voiced exactly when its confidence
\* is above 0.2, and a result that is not voiced has frequency 0 and period 0
C25_UnvoicedCarriesNoPitch ==
    detCall.kind = "process" =>
        /\ detCall.result.voiced <=> detCall.result.confidence > 200
        /\ ~ detCall.result.voiced =>
               detCall.result.frequency = 0 /\ detCall.result.period = 0

(***************************************************************************)
(* C26                                                                     *)
(***************************************************************************)
\* C26: at every process call the analysis window is 4 times the period, in
\* whole samples, of the minimum frequency configured at the call, and the
\* history buffer is at least as long as the window
C26_WindowFollowsMinimumFrequency ==
    detCall.kind = "process" =>
        /\ detector.analysisWindowSize
               = 4 * ((detector.sampleRate * HzUnit) \div detCall.minFreqHz)
        /\ Len(detector.inputBuffer) >= detector.analysisWindowSize

(***************************************************************************)
(* C27                                                                     *)
(***************************************************************************)
\* the detected note's deviation from its nearest semitone
Deviation(detected) ==
    retuneFrequencyToMidi(detected) - Round(retuneFrequencyToMidi(detected)) * Semi

\* the effective target pitch of the call minus its target pitch, in units
EffectiveShift == vibratoCall.adjusted.lg - vibratoCall.target.lg

\* C27 as stated: for every tracking amount t in [0, 1] the effective target
\* pitch is the target pitch plus t times the deviation of the detected note
\* from its nearest semitone
C27_BlendForEveryAmount ==
    vibratoCall.kind = "call" =>
        EffectiveShift
            = TruncDiv(Deviation(vibratoCall.detected) * vibratoCall.vibratoTracking, 1000)

\* the tracking amount the blend works with: amounts up to 0.01 count as 0,
\* amounts from 0.99 on as 1
EffectiveTracking(t) == IF t <= 10 THEN 0 ELSE IF t >= 990 THEN 1000 ELSE t

\* C27: the effective target pitch is the target pitch plus t' times the
\* deviation of the detected note from its nearest semitone, t' being the
\* tracking amount t with t <= 0.01 taken as 0 and t >= 0.99 taken as 1; so
\* t = 0 gives the target itself, and t = 1 with the nearest semitone as the
\* target gives the detected pitch (a ratio of exactly 1)
C27_BlendOutsideThresholds ==
    vibratoCall.kind = "call" =>
        /\ EffectiveShift
               = TruncDiv(Deviation(vibratoCall.detected)
                          * EffectiveTracking(vibratoCall.vibratoTracking), 1000)
        /\ vibratoCall.vibratoTracking = 0 => vibratoCall.adjusted = vibratoCall.target
        /\ (/\ vibratoCall.vibratoTracking = 1000
            /\ vibratoCall.target = NearestSemitone(vibratoCall.detected))
               => vibratoCall.adjusted.lg - vibratoCall.detected.lg = Unity

\* a call with a tracking amount between the thresholds that moved the target
\* by a part of a non-zero deviation
C27_Witness ==
    /\ vibratoCall.kind = "call"
    /\ vibratoCall.vibratoTracking = 250
    /\ Deviation(vibratoCall.detected) = 300
    /\ EffectiveShift = 75

(***************************************************************************)
(* C28                                                                     *)
(***************************************************************************)
\* C28: while every process call since prepare or reset had a non-null
\* input, the samples written and the samples output both equal the sum of
\* the block lengths, and the write position is that sum modulo the buffer
\* size, inside the buffer
C28_StreamPositions ==
    psolaFed =>
        /\ psola.totalInputSamples = psolaSum
        /\ psola.totalOutputSamples = psolaSum
        /\ psola.inputWritePos >= 0
        /\ psola.inputWritePos < Len(psola.inputBuffer)
        /\ psola.inputWritePos = psola.totalInputSamples % Len(psola.inputBuffer)

\* a voiced call, after a reset and enough input to wrap the circular buffer
C28_Witness ==
    /\ psolaFed
    /\ psolaCall.kind = "voiced"
    /\ psolaBlocks = MaxPsolaBlocks
    /\ psolaSum > Len(psola.inputBuffer)
    /\ psola.inputWritePos = psolaSum - Len(psola.inputBuffer)

\* the block of the last process call was a confident one
ConfidentBlock == engineCall.frequency > 0 /\ engineCall.confidence >= 50

\* the non-confident samples counted up to and including the last call's block
HoldCount == engineCall.counterBefore + engineCall.numSamples

\* C29, first part: a confident block stores its frequency as the last stable
\* detection and zeroes the counter; a following non-confident block keeps the
\* stable frequency as the detection target while the counted samples are
\* below holdSamples; once they reach holdSamples the stable frequency is
\* cleared and the detection target is 0 until the next confident block.
C29_HoldFollowsBlocks ==
    engineCall.kind = "process" =>
        /\ ConfidentBlock =>
              /\ engineCall.stable = engineCall.frequency
              /\ engineCall.counter = 0
              /\ engineCall.detectionTarget = engineCall.frequency
        /\ ~ConfidentBlock /\ engineCall.stableBefore > 0
              /\ HoldCount < holdSamplesAt(engineCall.sampleRate) =>
              /\ engineCall.stable = engineCall.stableBefore
              /\ engineCall.detectionTarget = engineCall.stableBefore
              /\ engineCall.counter = HoldCount
        /\ ~ConfidentBlock /\ engineCall.stableBefore > 0
              /\ HoldCount >= holdSamplesAt(engineCall.sampleRate) =>
              /\ engineCall.stable = 0
              /\ engineCall.detectionTarget = 0
        /\ ~ConfidentBlock /\ engineCall.stableBefore = 0 =>
              /\ engineCall.stable = 0
              /\ engineCall.detectionTarget = 0

\* C29, second part: in every state the low-confidence counter lies between 0
\* and holdSamples = round(0.12 * sampleRate) of the engine's sample rate.
C29_CounterWithinHold ==
    /\ 0 <= engine.lowConfidenceSampleCounter
    /\ engine.lowConfidenceSampleCounter <= holdSamplesAt(engine.currentSampleRate)

\* C29: the low-confidence hold of PitchCorrectionEngine::analyseBlock follows
\* the blocks as described (confident block stores, non-confident blocks hold
\* the stable frequency for holdSamples samples, then clear it), and in every
\* reachable state 0 <= counter <= holdSamples.
C29_LowConfidenceHold == C29_HoldFollowsBlocks /\ C29_CounterWithinHold

\* a hold that ran over several blocks and then expired: the stable frequency
\* was still held before the last call and is cleared after it
C29_HoldExpired ==
    /\ engineCall.kind = "process" /\ ~ConfidentBlock
    /\ engineCall.stableBefore > 0 /\ engineCall.counterBefore > 0
    /\ engineCall.stable = 0

\* C30: the three scores the quadratic refinement of fineSearch reads (at
\* bestLag-1, bestLag, bestLag+1) are scores the loop of the same call
\* computed: no entry left in fineScores by an earlier call, and no entry
\* never written, is read, also when bestLag is the first or the last lag of
\* the search window.
C30_RefinementReadsOwnScores ==
    detCall.kind = "process" => detCall.fine.read \subseteq detCall.fine.lags

\* the refinement ran on a best lag inside the search window and read three
\* scores of its own call
C30_InsideWindow ==
    /\ detCall.kind = "process"
    /\ detCall.fine.read # {}
    /\ detCall.fine.read \subseteq detCall.fine.lags


====
